---- MODULE Spec2Model ----
(***************************************************************************)
(* A model of skill-validator's measurement-and-verdict engine: the        *)
(* pairwise judge (position-swap reconciliation and score conversion),     *)
(* the judge retry loops, the comparator, the verdict and the evaluation   *)
(* loop of run().                                                          *)
(*                                                                         *)
(* JavaScript numbers are modelled as exact rationals <<n, d>> (d > 0, in  *)
(* lowest terms), so 0.4 is <<2, 5>> and 0.025 is <<1, 40>>.               *)
(***************************************************************************)
EXTENDS Integers, Sequences, FiniteSets, TLC

VARIABLES
    call,           \* a function applied on its own: its inputs, and its result once applied
    cfg,            \* run()'s config: runs, judgeMode, minImprovement, requireCompletion
    pc,             \* where run() stands
    iteration,      \* run()'s loop variable i, counted from 1
    agent,          \* the two runAgent calls of the current iteration
    chain,          \* per run attempt, the state of its background judgePromise
    task,           \* per judge call (judgeRun, pairwiseJudgeOnce), its retry loop
    pairwise,       \* per run attempt, the state of its pairwiseJudge call
    sessions,       \* the evaluator sessions created so far
    baselineRuns,   \* run()'s baselineRuns array
    withSkillRuns,  \* run()'s withSkillRuns array
    perRunPairwise, \* run()'s perRunPairwise array
    exitCode,       \* what run() returned, or the code the process died with
    verdicts        \* run()'s verdicts array

judgeVars == <<task, pairwise, sessions>>
runVars == <<cfg, pc, iteration, agent, chain, baselineRuns, withSkillRuns, perRunPairwise,
             exitCode, verdicts>>
vars == <<call, cfg, pc, iteration, agent, chain, task, pairwise, sessions, baselineRuns,
          withSkillRuns, perRunPairwise, exitCode, verdicts>>

\* JavaScript's undefined, for an optional argument or field that is absent
None == [undefined |-> TRUE]

(***************************************************************************)
(* Bounds of the model.                                                    *)
(***************************************************************************)
\* the largest token / tool-call / time count a run reports
MaxCount == 3
\* the most criteria a judge reply or rubric carries
MaxRubric == 2
\* the most scenario comparisons handed to computeVerdict
MaxScenarios == 2
\* the most run attempts per scenario (config.runs)
MaxRuns == 2

(***************************************************************************)
(* Exact rational arithmetic for JavaScript's number operations.           *)
(***************************************************************************)
RECURSIVE GCD(_, _)
GCD(a, b) == IF b = 0 THEN a ELSE GCD(b, a % b)

IntAbs(n) == IF n < 0 THEN -n ELSE n

Norm(n, d) ==
    LET s == IF d < 0 THEN -1 ELSE 1
        g == GCD(IntAbs(n), IntAbs(d))
    IN  <<(s * n) \div g, (s * d) \div g>>

Num(n) == <<n, 1>>
RAdd(x, y) == Norm(x[1] * y[2] + y[1] * x[2], x[2] * y[2])
RSub(x, y) == Norm(x[1] * y[2] - y[1] * x[2], x[2] * y[2])
RMul(x, y) == Norm(x[1] * y[1], x[2] * y[2])
RDiv(x, y) == Norm(x[1] * y[2], x[2] * y[1])
RNeg(x) == <<-x[1], x[2]>>
RLeq(x, y) == x[1] * y[2] <= y[1] * x[2]
RLt(x, y) == x[1] * y[2] < y[1] * x[2]
RAbs(x) == <<IntAbs(x[1]), x[2]>>
RMax(x, y) == IF RLeq(x, y) THEN y ELSE x
RMin(x, y) == IF RLeq(x, y) THEN x ELSE y

RECURSIVE RSum(_)
RSum(s) == IF s = <<>> THEN Num(0) ELSE RAdd(Head(s), RSum(Tail(s)))

Zero == Num(0)
One == Num(1)
MinusOne == Num(-1)

(***************************************************************************)
(* types.ts: the magnitude lookup and the weight vector.                   *)
(***************************************************************************)
Winners == {"baseline", "skill", "tie"}
Magnitudes == {"much-better", "slightly-better", "equal", "slightly-worse", "much-worse"}

PAIRWISE_MAGNITUDE_SCORES ==
    [m \in Magnitudes |->
        CASE m = "much-better" -> <<1, 1>>
          [] m = "slightly-better" -> <<2, 5>>
          [] m = "equal" -> <<0, 1>>
          [] m = "slightly-worse" -> <<-2, 5>>
          [] m = "much-worse" -> <<-1, 1>>]

\* Object.entries(DEFAULT_WEIGHTS), in declaration order
WeightsHeavyQuality ==
    << <<"tokenReduction", <<1, 20>> >>,
       <<"toolCallReduction", <<1, 40>> >>,
       <<"taskCompletionImprovement", <<3, 20>> >>,
       <<"timeReduction", <<1, 40>> >>,
       <<"qualityImprovement", <<1, 2>> >>,
       <<"overallJudgmentImprovement", <<3, 10>> >>,
       <<"errorReduction", <<1, 20>> >> >>

DEFAULT_WEIGHTS ==
    << <<"tokenReduction", <<1, 20>> >>,
       <<"toolCallReduction", <<1, 40>> >>,
       <<"taskCompletionImprovement", <<3, 20>> >>,
       <<"timeReduction", <<1, 40>> >>,
       <<"qualityImprovement", <<2, 5>> >>,
       <<"overallJudgmentImprovement", <<3, 10>> >>,
       <<"errorReduction", <<1, 20>> >> >>

(***************************************************************************)
(* pairwise-judge.ts: pairwiseToQualityScore.                              *)
(***************************************************************************)
\* a mutant: the sign of the lookup is kept instead of being forced by the winner
SignedScoreKeepsLookupSign(winner, magnitude) ==
    LET score == PAIRWISE_MAGNITUDE_SCORES[magnitude]
    IN  IF winner = "baseline" THEN RNeg(score)
        ELSE IF winner = "tie" THEN Zero
        ELSE score

\* the winner-signed score of one outcome (the overall one, or one criterion's)
SignedScore(winner, magnitude) ==
    LET score == PAIRWISE_MAGNITUDE_SCORES[magnitude]
    IN  IF winner = "baseline" THEN RNeg(RAbs(score))
        ELSE IF winner = "tie" THEN Zero
        ELSE RAbs(score)

\* a mutant: the rubric sum is returned without dividing by the number of criteria
PairwiseToQualityScoreNoMean(result) ==
    LET overallScore == SignedScore(result.overallWinner, result.overallMagnitude)
        rubricSum == RSum([i \in 1..Len(result.rubricResults) |->
                        SignedScore(result.rubricResults[i].winner,
                                    result.rubricResults[i].magnitude)])
    IN  [qualityImprovement |-> rubricSum, overallImprovement |-> overallScore]

pairwiseToQualityScore(result) ==
    LET overallScore == SignedScore(result.overallWinner, result.overallMagnitude)
        rubricSum == RSum([i \in 1..Len(result.rubricResults) |->
                        SignedScore(result.rubricResults[i].winner,
                                    result.rubricResults[i].magnitude)])
        qualityScore == IF Len(result.rubricResults) > 0
                        THEN RDiv(rubricSum, Num(Len(result.rubricResults)))
                        ELSE Zero
    IN  [qualityImprovement |-> qualityScore, overallImprovement |-> overallScore]

(***************************************************************************)
(* pairwise-judge.ts: the reply parser and the position-swap               *)
(* reconciliation.  An evaluator reply's text is what the JSON extraction  *)
(* finds in it: nothing, text JSON.parse rejects, or an object.  A string  *)
(* the evaluator may leave out is "" when missing; a reasoning string is   *)
(* the sequence of its phrases.                                            *)
(***************************************************************************)
Directions == {"forward", "reverse"}

\* String.prototype.toUpperCase on the answers an evaluator writes
ToUpperCase(s) ==
    CASE s = "a" -> "A"
      [] s = "b" -> "B"
      [] s = "tie" -> "TIE"
      [] s = "Tie" -> "TIE"
      [] s = "equal" -> "EQUAL"
      [] OTHER -> s

\* s.toLowerCase().replace(/_/g, "-") on the magnitudes an evaluator writes
ToLowerDashed(s) ==
    CASE s = "much_better" -> "much-better"
      [] s = "Much-Better" -> "much-better"
      [] s = "slightly_better" -> "slightly-better"
      [] s = "slightly_worse" -> "slightly-worse"
      [] s = "Slightly-Worse" -> "slightly-worse"
      [] s = "much_worse" -> "much-worse"
      [] s = "EQUAL" -> "equal"
      [] OTHER -> s

normalizeMagnitude(raw) ==
    LET s == ToLowerDashed(IF raw = "" THEN "equal" ELSE raw)
    IN  IF s \in Magnitudes THEN s ELSE "equal"

\* a mutant: the reverse presentation is remapped like the forward one
RemapWinnerIgnoresDirection(raw, direction) ==
    LET rawWinner == ToUpperCase(IF raw = "" THEN "tie" ELSE raw)
    IN  IF rawWinner = "TIE" \/ rawWinner = "EQUAL" THEN "tie"
        ELSE IF rawWinner = "A" THEN "baseline" ELSE "skill"

\* the winner remap of parsePairwiseResponse, for a criterion or the overall answer
RemapWinner(raw, direction) ==
    LET rawWinner == ToUpperCase(IF raw = "" THEN "tie" ELSE raw)
    IN  IF rawWinner = "TIE" \/ rawWinner = "EQUAL" THEN "tie"
        ELSE IF direction = "forward" THEN (IF rawWinner = "A" THEN "baseline" ELSE "skill")
        ELSE (IF rawWinner = "A" THEN "skill" ELSE "baseline")

\* the outcome of a call that may throw
Returned(v) == [ok |-> TRUE, value |-> v, error |-> <<>>]
Thrown(e) == [ok |-> FALSE, value |-> None, error |-> e]

parsePairwiseResponse(content, direction) ==
    IF content.json = "none" THEN Thrown(<<"Pairwise judge response contained no JSON">>)
    ELSE IF content.json = "malformed" THEN Thrown(<<"SyntaxError">>)
    ELSE
        LET parsed == content.value
        IN  Returned(
                [rubricResults |->
                    [k \in 1..Len(parsed.rubric_results) |->
                        [criterion |-> parsed.rubric_results[k].criterion,
                         winner |-> RemapWinner(parsed.rubric_results[k].winner, direction),
                         magnitude |-> normalizeMagnitude(parsed.rubric_results[k].magnitude),
                         reasoning |-> parsed.rubric_results[k].reasoning]],
                 overallWinner |-> RemapWinner(parsed.overall_winner, direction),
                 overallMagnitude |-> normalizeMagnitude(parsed.overall_magnitude),
                 overallReasoning |-> parsed.overall_reasoning,
                 positionSwapConsistent |-> TRUE])

mergeInconsistentResults(forward, reverse) ==
    [rubricResults |->
        [k \in 1..Len(forward.rubricResults) |->
            LET fr == forward.rubricResults[k]
                missing == k > Len(reverse.rubricResults)
            IN  IF missing \/ fr.winner # reverse.rubricResults[k].winner
                THEN [criterion |-> fr.criterion, winner |-> "tie", magnitude |-> "equal",
                      reasoning |-> <<"Position-swap inconsistent", fr.winner,
                                      IF missing THEN "unknown"
                                      ELSE reverse.rubricResults[k].winner>>]
                ELSE fr],
     overallWinner |-> "tie",
     overallMagnitude |-> "equal",
     overallReasoning |-> <<"Position-swap inconsistent", forward.overallWinner,
                            reverse.overallWinner, "Defaulting to tie">>,
     positionSwapConsistent |-> FALSE]

\* a mutant: on disagreement the forward call's answer is kept
ReconcileKeepsForward(forwardResult, reverseResult) ==
    [forwardResult EXCEPT
        !.positionSwapConsistent = (forwardResult.overallWinner = reverseResult.overallWinner)]

\* what pairwiseJudge returns once both calls have returned
Reconcile(forwardResult, reverseResult) ==
    IF forwardResult.overallWinner = reverseResult.overallWinner
    THEN [forwardResult EXCEPT !.positionSwapConsistent = TRUE]
    ELSE mergeInconsistentResults(forwardResult, reverseResult)

(***************************************************************************)
(* comparator.ts: compareScenario.                                         *)
(***************************************************************************)
\* a mutant: a zero baseline always reads as no change
ComputeReductionZeroBaseline(baseline, withSkill) ==
    IF baseline = 0 THEN Zero
    ELSE RMax(MinusOne, RMin(One, Norm(baseline - withSkill, baseline)))

\* a mutant: the ratio is returned without clamping
ComputeReductionUnclamped(baseline, withSkill) ==
    IF baseline = 0 THEN (IF withSkill = 0 THEN Zero ELSE MinusOne)
    ELSE Norm(baseline - withSkill, baseline)

computeReduction(baseline, withSkill) ==
    IF baseline = 0 THEN (IF withSkill = 0 THEN Zero ELSE MinusOne)
    ELSE RMax(MinusOne, RMin(One, Norm(baseline - withSkill, baseline)))

averageRubricScore(result) ==
    LET scores == result.judgeResult.rubricScores
    IN  IF Len(scores) = 0 THEN Num(3)
        ELSE RDiv(RSum([i \in 1..Len(scores) |-> scores[i].score]), Num(Len(scores)))

\* scale defaults to 2.5
normalizeScoreImprovement(baseline, withSkill) ==
    RMax(MinusOne, RMin(One, RDiv(RSub(withSkill, baseline), <<5, 2>>)))

RECURSIVE WeightedSum(_, _)
WeightedSum(breakdown, entries) ==
    IF entries = <<>> THEN Zero
    ELSE LET e == entries[Len(entries)]
         IN  RAdd(WeightedSum(breakdown, SubSeq(entries, 1, Len(entries) - 1)),
                  RMul(breakdown[e[1]], e[2]))

Breakdown0(baseline, withSkill) ==
    [tokenReduction |->
        computeReduction(baseline.metrics.tokenEstimate, withSkill.metrics.tokenEstimate),
     toolCallReduction |->
        computeReduction(baseline.metrics.toolCallCount, withSkill.metrics.toolCallCount),
     taskCompletionImprovement |->
        IF withSkill.metrics.taskCompleted = baseline.metrics.taskCompleted THEN Zero
        ELSE IF withSkill.metrics.taskCompleted THEN One ELSE MinusOne,
     timeReduction |->
        computeReduction(baseline.metrics.wallTimeMs, withSkill.metrics.wallTimeMs),
     qualityImprovement |->
        normalizeScoreImprovement(averageRubricScore(baseline), averageRubricScore(withSkill)),
     overallJudgmentImprovement |->
        normalizeScoreImprovement(baseline.judgeResult.overallScore,
                                  withSkill.judgeResult.overallScore),
     errorReduction |->
        computeReduction(baseline.metrics.errorCount, withSkill.metrics.errorCount)]

\* a mutant: an inconsistent pairwise result is special-cased and does not override
CompareScenarioSkipsInconsistent(scenarioName, baseline, withSkill, pairwiseResult) ==
    LET b0 == Breakdown0(baseline, withSkill)
        use == IF pairwiseResult = None THEN FALSE ELSE pairwiseResult.positionSwapConsistent
        pairwiseScores == pairwiseToQualityScore(pairwiseResult)
        breakdown ==
            IF use
            THEN [b0 EXCEPT !.qualityImprovement = pairwiseScores.qualityImprovement,
                            !.overallJudgmentImprovement = pairwiseScores.overallImprovement]
            ELSE b0
    IN  [scenarioName |-> scenarioName, baseline |-> baseline, withSkill |-> withSkill,
         improvementScore |-> WeightedSum(breakdown, DEFAULT_WEIGHTS),
         breakdown |-> breakdown, pairwiseResult |-> pairwiseResult,
         perRunScores |-> None]

compareScenario(scenarioName, baseline, withSkill, pairwiseResult) ==
    LET b0 == Breakdown0(baseline, withSkill)
        pairwiseScores == pairwiseToQualityScore(pairwiseResult)
        breakdown ==
            IF pairwiseResult # None
            THEN [b0 EXCEPT !.qualityImprovement = pairwiseScores.qualityImprovement,
                            !.overallJudgmentImprovement = pairwiseScores.overallImprovement]
            ELSE b0
    IN  [scenarioName |-> scenarioName, baseline |-> baseline, withSkill |-> withSkill,
         improvementScore |-> WeightedSum(breakdown, DEFAULT_WEIGHTS),
         breakdown |-> breakdown, pairwiseResult |-> pairwiseResult,
         perRunScores |-> None]

(***************************************************************************)
(* statistics.ts: the seeded bootstrap.  A 32-bit word is <<hi, lo>>, two  *)
(* 16-bit halves, so that no intermediate value leaves TLC's integers.     *)
(***************************************************************************)
W16 == 65536

RECURSIVE BitXor(_, _)
BitXor(a, b) ==
    IF a = 0 THEN b
    ELSE IF b = 0 THEN a
    ELSE (((a % 2) + (b % 2)) % 2) + 2 * BitXor(a \div 2, b \div 2)

Xor32(x, y) == <<BitXor(x[1], y[1]), BitXor(x[2], y[2])>>
Add32(x, y) == <<(x[1] + y[1] + ((x[2] + y[2]) \div W16)) % W16, (x[2] + y[2]) % W16>>
Shr16(x) == <<0, x[1]>>
Shr13(x) == <<x[1] \div 8192, (x[1] % 8192) * 8 + (x[2] \div 8192)>>

\* the 32-bit product of two 16-bit numbers
Mul16(a, b) ==
    LET p1 == (a \div 256) * b
        p0 == (a % 256) * b
        t == (p1 % 256) * 256 + p0
    IN  <<((p1 \div 256) + (t \div W16)) % W16, t % W16>>

\* Math.imul: the low 32 bits of the product
Imul(x, y) ==
    LET ll == Mul16(x[2], y[2])
    IN  <<(ll[1] + Mul16(x[1], y[2])[2] + Mul16(x[2], y[1])[2]) % W16, ll[2]>>

\* seededRandom(seed) * 2^32, as a 32-bit word
seededRandom(seed) ==
    LET s0 == <<(seed \div W16) % W16, seed % W16>>
        s1 == Add32(s0, <<40503, 31161>>)                     \* 0x9e3779b9
        s2 == Imul(Xor32(s1, Shr16(s1)), <<34283, 51819>>)    \* 0x85ebca6b
        s3 == Imul(Xor32(s2, Shr13(s2)), <<49842, 44597>>)    \* 0xc2b2ae35
    IN  Xor32(s3, Shr16(s3))

\* Math.floor(seededRandom(seed) * n)
RandomIndex(seed, n) ==
    LET u == seededRandom(seed)
    IN  (u[1] * n + ((u[2] * n) \div W16)) \div W16

\* RandomIndex tabulated for short arrays and small seeds (the values are RandomIndex's)
TableLen == 9
TableSeeds == 64
RandomIndexTable ==
    [n \in 1..TableLen |-> [seed \in 0..(TableSeeds - 1) |-> RandomIndex(seed, n)]]

DrawIndex(seed, n) ==
    IF n <= TableLen /\ seed < TableSeeds THEN RandomIndexTable[n][seed]
    ELSE RandomIndex(seed, n)

RFloor(x) == x[1] \div x[2]

\* undefined where a number is expected: no rational, and every comparison with it is false
Undef == <<0, 0>>
IsDefined(x) == x[2] # 0

\* a read of a number array: undefined outside the array
At(arr, idx) == IF idx >= 0 /\ idx < Len(arr) THEN arr[idx + 1] ELSE Undef

bootstrapConfidenceInterval(data, confidenceLevel, iterations) ==
    IF Len(data) = 0 THEN [low |-> Zero, high |-> Zero, level |-> confidenceLevel]
    ELSE IF Len(data) = 1 THEN [low |-> data[1], high |-> data[1], level |-> confidenceLevel]
    ELSE
        LET n == Len(data)
            means == [i \in 1..iterations |->
                        RDiv(RSum([j \in 1..n |->
                                data[DrawIndex((i - 1) * n + (j - 1), n) + 1]]), Num(n))]
            sorted == SortSeq(means, LAMBDA a, b: RLt(a, b))
            alpha == RSub(One, confidenceLevel)
            half == RDiv(alpha, Num(2))
            lowIdx == RFloor(RMul(half, Num(iterations)))
            highIdx == RFloor(RMul(RSub(One, half), Num(iterations))) - 1
            lo == IF 0 > lowIdx THEN 0 ELSE lowIdx
            hi == IF iterations - 1 < highIdx THEN iterations - 1 ELSE highIdx
        IN  [low |-> At(sorted, lo), high |-> At(sorted, hi), level |-> confidenceLevel]

\* a mutant: an interval touching zero counts as significant
IsStatisticallySignificantTouching(ci) ==
    \/ (IsDefined(ci.low) /\ RLeq(Zero, ci.low))
    \/ (IsDefined(ci.high) /\ RLeq(ci.high, Zero))

\* a comparison with undefined is false
isStatisticallySignificant(ci) ==
    \/ (IsDefined(ci.low) /\ RLt(Zero, ci.low))
    \/ (IsDefined(ci.high) /\ RLt(ci.high, Zero))

(***************************************************************************)
(* comparator.ts: computeVerdict.  A reason is the sequence of the phrases *)
(* the reason string is made of.                                           *)
(***************************************************************************)
\* the iterations bootstrapConfidenceInterval runs when computeVerdict calls it
BootstrapIterations == 4

\* comparisons.flatMap((c) => c.perRunScores ?? [c.improvementScore])
RECURSIVE AllPerRunScores(_)
AllPerRunScores(comparisons) ==
    IF comparisons = <<>> THEN <<>>
    ELSE LET c == Head(comparisons)
         IN  (IF c.perRunScores = None THEN <<c.improvementScore>> ELSE c.perRunScores.scores)
             \o AllPerRunScores(Tail(comparisons))

\* a mutant: at the ceiling the gain is 0 even when quality dropped
ComputeNormalizedGainCeilingZero(comparisons) ==
    IF Len(comparisons) = 0 THEN Zero
    ELSE
        LET gain(c) ==
                LET pre == RDiv(RSub(c.baseline.judgeResult.overallScore, One), Num(4))
                    post == RDiv(RSub(c.withSkill.judgeResult.overallScore, One), Num(4))
                IN  IF RLeq(One, pre) THEN Zero
                    ELSE RDiv(RSub(post, pre), RSub(One, pre))
            totalGain == RSum([i \in 1..Len(comparisons) |-> gain(comparisons[i])])
        IN  RDiv(totalGain, Num(Len(comparisons)))

computeNormalizedGain(comparisons) ==
    IF Len(comparisons) = 0 THEN Zero
    ELSE
        LET gain(c) ==
                LET pre == RDiv(RSub(c.baseline.judgeResult.overallScore, One), Num(4))
                    post == RDiv(RSub(c.withSkill.judgeResult.overallScore, One), Num(4))
                IN  IF RLeq(One, pre)
                    THEN (IF RLeq(pre, post) THEN Zero ELSE RSub(post, pre))
                    ELSE RDiv(RSub(post, pre), RSub(One, pre))
            totalGain == RSum([i \in 1..Len(comparisons) |-> gain(comparisons[i])])
        IN  RDiv(totalGain, Num(Len(comparisons)))

\* a mutant: the completion regression is checked only when the score misses the threshold
ComputeVerdictScoreFirst(skill, comparisons, minImprovement, requireCompletion, confidenceLevel) ==
    LET overall == RDiv(RSum([i \in 1..Len(comparisons) |-> comparisons[i].improvementScore]),
                        Num(Len(comparisons)))
        regressed == \E i \in 1..Len(comparisons) :
                        /\ comparisons[i].baseline.metrics.taskCompleted
                        /\ ~comparisons[i].withSkill.metrics.taskCompleted
        passed == RLeq(minImprovement, overall)
    IN  IF Len(comparisons) = 0
        THEN [skillName |-> skill.name, skillPath |-> skill.path, passed |-> FALSE,
              scenarios |-> <<>>, overallImprovementScore |-> Zero,
              reason |-> <<"No scenarios to evaluate">>]
        ELSE [skillName |-> skill.name, skillPath |-> skill.path,
              passed |-> passed, scenarios |-> comparisons,
              overallImprovementScore |-> overall,
              reason |-> IF ~passed /\ requireCompletion /\ regressed
                         THEN <<"Skill regressed on task completion in one or more scenarios">>
                         ELSE IF passed THEN <<"Improvement score meets threshold">>
                         ELSE <<"Improvement score below threshold">>]

computeVerdict(skill, comparisons, minImprovement, requireCompletion, confidenceLevel) ==
    IF Len(comparisons) = 0
    THEN [skillName |-> skill.name, skillPath |-> skill.path, passed |-> FALSE,
          scenarios |-> <<>>, overallImprovementScore |-> Zero,
          reason |-> <<"No scenarios to evaluate">>]
    ELSE
        LET allPerRunScores == AllPerRunScores(comparisons)
            overallImprovementScore ==
                RDiv(RSum([i \in 1..Len(comparisons) |-> comparisons[i].improvementScore]),
                     Num(Len(comparisons)))
            normalizedGain == computeNormalizedGain(comparisons)
            ci == bootstrapConfidenceInterval(allPerRunScores, confidenceLevel,
                                              BootstrapIterations)
            significant == isStatisticallySignificant(ci)
            regressed == \E i \in 1..Len(comparisons) :
                            /\ comparisons[i].baseline.metrics.taskCompleted
                            /\ ~comparisons[i].withSkill.metrics.taskCompleted
            passed == RLeq(minImprovement, overallImprovementScore)
            reason == (IF passed THEN <<"Improvement score meets threshold">>
                       ELSE <<"Improvement score below threshold">>)
                      \o (IF ~significant /\ Len(allPerRunScores) > 1
                          THEN <<"(not statistically significant)">> ELSE <<>>)
        IN  IF requireCompletion /\ regressed
            THEN [skillName |-> skill.name, skillPath |-> skill.path, passed |-> FALSE,
                  scenarios |-> comparisons,
                  overallImprovementScore |-> overallImprovementScore,
                  normalizedGain |-> normalizedGain, confidenceInterval |-> ci,
                  isSignificant |-> significant,
                  reason |-> <<"Skill regressed on task completion in one or more scenarios">>]
            ELSE [skillName |-> skill.name, skillPath |-> skill.path, passed |-> passed,
                  scenarios |-> comparisons,
                  overallImprovementScore |-> overallImprovementScore,
                  normalizedGain |-> normalizedGain, confidenceInterval |-> ci,
                  isSignificant |-> significant, reason |-> reason]

(***************************************************************************)
(* The inputs the pure functions are applied to.                           *)
(***************************************************************************)
Counts == {0, 1, MaxCount}

RunMetricsSet ==
    [tokenEstimate : Counts, toolCallCount : {0, MaxCount}, wallTimeMs : {1, 2},
     errorCount : {0, 1}, taskCompleted : BOOLEAN]

Rubric(scores) == [i \in 1..Len(scores) |-> [criterion |-> i, score |-> Num(scores[i])]]

JudgeResultSet ==
    {[rubricScores |-> Rubric(<<>>), overallScore |-> Num(3)],
     [rubricScores |-> Rubric(<<1>>), overallScore |-> Num(1)],
     [rubricScores |-> Rubric(<<4, 5>>), overallScore |-> Num(5)]}

RunResultSet == [metrics : RunMetricsSet, judgeResult : JudgeResultSet]

PairwiseRubricResultSet == [winner : Winners, magnitude : Magnitudes]

\* the criterion lists of at most n entries, criterion i being the i-th of the rubric
RubricResultLists(n) ==
    UNION {[1..k -> PairwiseRubricResultSet] : k \in 0..n}

WithCriteria(list) ==
    [i \in 1..Len(list) |->
        [criterion |-> i, winner |-> list[i].winner, magnitude |-> list[i].magnitude,
         reasoning |-> <<"judge">>]]

PairwiseJudgeResults(n) ==
    {[rubricResults |-> WithCriteria(l), overallWinner |-> w, overallMagnitude |-> m,
      overallReasoning |-> <<"judge">>, positionSwapConsistent |-> c] :
        l \in RubricResultLists(n), w \in Winners, m \in Magnitudes, c \in BOOLEAN}

PW(list, w, m, c) ==
    [rubricResults |-> WithCriteria(list), overallWinner |-> w, overallMagnitude |-> m,
     overallReasoning |-> <<"judge">>, positionSwapConsistent |-> c]

RR(w, m) == [winner |-> w, magnitude |-> m]

\* the pairwise results handed to compareScenario
PairwiseSamples ==
    {PW(<<RR("skill", "much-better")>>, "skill", "much-better", TRUE),
     PW(<<RR("baseline", "slightly-better"), RR("tie", "equal")>>,
        "baseline", "slightly-better", TRUE),
     PW(<<>>, "skill", "slightly-worse", TRUE),
     PW(<<RR("skill", "much-better"), RR("skill", "slightly-better")>>, "tie", "equal", FALSE)}

CompareInputs(runs, pairwiseResults) ==
    {[fn |-> "compareScenario", baseline |-> b, withSkill |-> w, pairwiseResult |-> p,
      done |-> FALSE, result |-> None] :
        b \in runs, w \in runs, p \in pairwiseResults}

ScoreInputs(n) ==
    {[fn |-> "pairwiseToQualityScore", pairwise |-> p, done |-> FALSE, result |-> None] :
        p \in PairwiseJudgeResults(n)}

Run(tokens, completed, score) ==
    [metrics |-> [tokenEstimate |-> tokens, toolCallCount |-> 1, wallTimeMs |-> 1,
                  errorCount |-> 0, taskCompleted |-> completed],
     judgeResult |-> [rubricScores |-> Rubric(<<score>>), overallScore |-> Num(score)]]

VerdictRuns == {Run(MaxCount, TRUE, 3), Run(1, FALSE, 5), Run(1, TRUE, 5), Run(MaxCount, FALSE, 1)}

\* comparisons as run() builds them: compareScenario's result, with or without per-run scores
VerdictComparisons ==
    {compareScenario("scenario", b, w, None) : b \in VerdictRuns, w \in VerdictRuns}
    \cup
    {[compareScenario("scenario", b, b, None) EXCEPT
        !.perRunScores = [scores |-> << <<-1, 10>>, <<1, 5>>, <<-1, 20>> >>]] :
        b \in VerdictRuns}

MinImprovements == {Zero, <<1, 10>>, <<1, 2>>}

VerdictInputs(n) ==
    {[fn |-> "computeVerdict", comparisons |-> cs, minImprovement |-> m,
      requireCompletion |-> r, confidenceLevel |-> <<19, 20>>,
      done |-> FALSE, result |-> None] :
        cs \in UNION {[1..k -> VerdictComparisons] : k \in 0..n},
        m \in MinImprovements, r \in BOOLEAN}

theSkill == [name |-> "skill", path |-> "/skill"]

\* the longest data array and the most iterations bootstrapConfidenceInterval is given
MaxData == 3
MaxIterations == 3

Observations == {<<-1, 10>>, Zero, <<1, 5>>}
ConfidenceLevels == {<<1, 10>>, <<1, 2>>, <<19, 20>>}

BootstrapInputs(n, iterations) ==
    {[fn |-> "bootstrapConfidenceInterval", data |-> d, confidenceLevel |-> c,
      iterations |-> k, done |-> FALSE, result |-> None] :
        d \in UNION {[1..len -> Observations] : len \in 0..n},
        c \in ConfidenceLevels, k \in 1..iterations}

(***************************************************************************)
(* judge.ts: the independent judge's reply parser.  A raw score is a       *)
(* rational, or Undef when it is missing or not a number.                  *)
(***************************************************************************)
\* Math.round: the nearest integer, a half rounded up
RRound(x) == RFloor(RAdd(x, <<1, 2>>))

\* a mutant: only a missing or non-numeric score defaults to 3, a zero is clamped
ClampScoreZeroClamped(raw) ==
    LET n == IF ~IsDefined(raw) THEN Num(3) ELSE raw
    IN  RDiv(Num(RRound(RMul(RMax(One, RMin(Num(5), n)), Num(10)))), Num(10))

\* Math.round(Math.max(1, Math.min(5, Number(raw) || 3)) * 10) / 10
ClampScore(raw) ==
    LET n == IF ~IsDefined(raw) \/ raw = Zero THEN Num(3) ELSE raw
    IN  RDiv(Num(RRound(RMul(RMax(One, RMin(Num(5), n)), Num(10)))), Num(10))

parseJudgeResponse(content) ==
    IF content.json = "none" THEN Thrown(<<"Judge response contained no JSON">>)
    ELSE IF content.json = "malformed" THEN Thrown(<<"Judge response parsing failed">>)
    ELSE
        LET parsed == content.value
        IN  Returned(
                [rubricScores |->
                    [k \in 1..Len(parsed.rubric_scores) |->
                        [criterion |-> parsed.rubric_scores[k].criterion,
                         score |-> ClampScore(parsed.rubric_scores[k].score),
                         reasoning |-> parsed.rubric_scores[k].reasoning]],
                 overallScore |-> ClampScore(parsed.overall_score),
                 overallReasoning |-> parsed.overall_reasoning])

(***************************************************************************)
(* judge.ts, pairwise-judge.ts: one evaluator round trip and the retry     *)
(* loop around it.  The evaluator's part in a round trip is its reply:     *)
(* the client or the session cannot be had, the send fails or times out,   *)
(* the response has no content, or it has content.                         *)
(***************************************************************************)
MAX_RETRIES == 2
MAX_JUDGE_RETRIES == 2

NoJson == [json |-> "none", value |-> None]
Malformed == [json |-> "malformed", value |-> None]
Object(v) == [json |-> "object", value |-> v]

Failure(kind) == [kind |-> kind, content |-> NoJson]
Content(c) == [kind |-> "content", content |-> c]

\* the session an attempt leaves behind: destroyed and its timer cleared only
\* when sendAndWait returned
SessionLeft(reply) ==
    IF reply.kind = "clientError" THEN {}
    ELSE IF reply.kind = "sendError" THEN {[destroyed |-> FALSE, timerArmed |-> TRUE]}
    ELSE {[destroyed |-> TRUE, timerArmed |-> FALSE]}

\* a mutant: a reply without JSON is answered with a neutral tie
PairwiseCallDefaultsOnNoJson(reply, direction) ==
    IF reply.kind = "clientError" THEN Thrown(<<"client">>)
    ELSE IF reply.kind = "sendError" THEN Thrown(<<"send">>)
    ELSE IF reply.kind = "noContent" THEN Thrown(<<"Pairwise judge returned no content">>)
    ELSE IF reply.content.json = "object" THEN parsePairwiseResponse(reply.content, direction)
    ELSE Returned([rubricResults |-> <<>>, overallWinner |-> "tie",
                   overallMagnitude |-> "equal", overallReasoning |-> <<>>,
                   positionSwapConsistent |-> TRUE])

pairwiseJudgeCall(reply, direction) ==
    IF reply.kind = "clientError" THEN Thrown(<<"client">>)
    ELSE IF reply.kind = "sendError" THEN Thrown(<<"send">>)
    ELSE IF reply.kind = "noContent" THEN Thrown(<<"Pairwise judge returned no content">>)
    ELSE parsePairwiseResponse(reply.content, direction)

judgeRunOnce(reply) ==
    IF reply.kind = "clientError" THEN Thrown(<<"client">>)
    ELSE IF reply.kind = "sendError" THEN Thrown(<<"send">>)
    ELSE IF reply.kind = "noContent" THEN Thrown(<<"Judge returned no content">>)
    ELSE parseJudgeResponse(reply.content)

Arms == {"baseline", "withSkill"}
Roles == Arms \cup Directions
RunIds == 1..MaxRuns
TaskIds == RunIds \X Roles

IdleTask == [status |-> "idle", attempt |-> 0, calls |-> 0, reply |-> None, result |-> None]
StartedTask == [IdleTask EXCEPT !.status = "running"]

\* a mutant: the loop allows one attempt more
LoopStepOneMore(t, reply, outcome, maxRetries) ==
    IF outcome.ok
    THEN [status |-> "returned", attempt |-> t.attempt, calls |-> t.calls + 1,
          reply |-> reply, result |-> outcome.value]
    ELSE [status |-> IF t.attempt + 1 > maxRetries + 1 THEN "threw" ELSE "running",
          attempt |-> t.attempt + 1, calls |-> t.calls + 1,
          reply |-> reply, result |-> None]

\* one iteration of for (attempt = 0; attempt <= maxRetries; attempt++) { try ... catch ... }
LoopStep(t, reply, outcome, maxRetries) ==
    IF outcome.ok
    THEN [status |-> "returned", attempt |-> t.attempt, calls |-> t.calls + 1,
          reply |-> reply, result |-> outcome.value]
    ELSE [status |-> IF t.attempt + 1 > maxRetries THEN "threw" ELSE "running",
          attempt |-> t.attempt + 1, calls |-> t.calls + 1,
          reply |-> reply, result |-> None]

SessionsOf(t, reply) ==
    {[task |-> t, attempt |-> task[t].attempt, destroyed |-> x.destroyed,
      timerArmed |-> x.timerArmed] : x \in SessionLeft(reply)}

\* the process is there: run() has not returned to process.exit, nor has the
\* process died
Alive == pc \notin {"done", "crashed"}

\* judgeRun: one attempt of the independent judge for a run's arm
judgeRun(t, replies) ==
    /\ Alive
    /\ t[2] \in Arms
    /\ task[t].status = "running"
    /\ \E reply \in replies :
        /\ task' = [task EXCEPT ![t] = LoopStep(@, reply, judgeRunOnce(reply),
                                                 MAX_JUDGE_RETRIES)]
        /\ sessions' = sessions \cup SessionsOf(t, reply)
    /\ UNCHANGED <<call, pairwise, runVars>>

\* pairwiseJudgeOnce: one attempt of one direction of a pairwise comparison
pairwiseJudgeOnce(t, replies) ==
    /\ Alive
    /\ t[2] \in Directions
    /\ task[t].status = "running"
    /\ \E reply \in replies :
        /\ task' = [task EXCEPT ![t] = LoopStep(@, reply, pairwiseJudgeCall(reply, t[2]),
                                                 MAX_RETRIES)]
        /\ sessions' = sessions \cup SessionsOf(t, reply)
    /\ UNCHANGED <<call, pairwise, runVars>>

IdlePairwise == [status |-> "idle", result |-> None]

\* pairwiseJudge: Promise.all of the two directions settles, rejected by the
\* first direction that throws, else resolved when both have returned
pairwiseJudge(r) ==
    /\ Alive
    /\ pairwise[r].status = "pending"
    /\ LET forward == task[<<r, "forward">>]
           reverse == task[<<r, "reverse">>]
       IN  \/ /\ forward.status = "threw" \/ reverse.status = "threw"
              /\ pairwise' = [pairwise EXCEPT ![r] = [status |-> "rejected", result |-> None]]
           \/ /\ forward.status = "returned" /\ reverse.status = "returned"
              /\ pairwise' = [pairwise EXCEPT ![r] =
                                [status |-> "resolved",
                                 result |-> Reconcile(forward.result, reverse.result)]]
    /\ UNCHANGED <<call, task, sessions, runVars>>

(***************************************************************************)
(* What the evaluator may reply.                                           *)
(***************************************************************************)
Failures == {Failure("clientError"), Failure("sendError"), Failure("noContent"),
             Content(NoJson), Content(Malformed)}

\* an answer to the independent judge: one criterion, scored like the whole
JudgeAnswer(score) ==
    [rubric_scores |-> <<[criterion |-> 1, score |-> score, reasoning |-> <<"judge">>]>>,
     overall_score |-> score, overall_reasoning |-> <<"judge">>]

PairwiseAnswer(list, w, m) ==
    [rubric_results |->
        [k \in 1..Len(list) |->
            [criterion |-> k, winner |-> list[k][1], magnitude |-> list[k][2],
             reasoning |-> <<"judge">>]],
     overall_winner |-> w, overall_magnitude |-> m, overall_reasoning |-> <<"judge">>]

\* the criterion answers of at most n criteria
CriterionAnswers(n) ==
    UNION {[1..k -> {"A", "B", "tie"} \X {"much_better"}] : k \in 0..n}

\* every answer over at most n criteria
PairwiseAnswers(n) ==
    {PairwiseAnswer(l, w, m) :
        l \in CriterionAnswers(n), w \in {"A", "B", "tie"},
        m \in {"slightly-better", "much_worse"}}

\* every answer, and a reply without JSON
PairwiseReplies(n) == {Content(NoJson)} \cup {Content(Object(a)) : a \in PairwiseAnswers(n)}

(***************************************************************************)
(* The pure functions applied to their inputs.                             *)
(***************************************************************************)
NoCall == [fn |-> "none", done |-> TRUE]
NoConfig == [runs |-> 0]

\* nothing of run() or of the judges is in progress
Idle ==
    /\ cfg = NoConfig
    /\ pc = "idle"
    /\ iteration = 0
    /\ agent = [a \in Arms |-> [status |-> "idle", metrics |-> None]]
    /\ chain = [r \in RunIds |->
                [stage |-> "idle", baselineMetrics |-> None, withSkillMetrics |-> None]]
    /\ task = [t \in TaskIds |-> IdleTask]
    /\ pairwise = [r \in RunIds |-> IdlePairwise]
    /\ sessions = {}
    /\ baselineRuns = <<>>
    /\ withSkillRuns = <<>>
    /\ perRunPairwise = [r \in RunIds |-> None]
    /\ exitCode = -1
    /\ verdicts = <<>>

CompareScenarioCall ==
    /\ call.fn = "compareScenario"
    /\ ~call.done
    /\ call' = [call EXCEPT !.done = TRUE,
                  !.result = compareScenario("scenario", call.baseline, call.withSkill,
                                             call.pairwiseResult)]
    /\ UNCHANGED <<judgeVars, runVars>>

PairwiseToQualityScoreCall ==
    /\ call.fn = "pairwiseToQualityScore"
    /\ ~call.done
    /\ call' = [call EXCEPT !.done = TRUE, !.result = pairwiseToQualityScore(call.pairwise)]
    /\ UNCHANGED <<judgeVars, runVars>>

ComputeVerdictCall ==
    /\ call.fn = "computeVerdict"
    /\ ~call.done
    /\ call' = [call EXCEPT !.done = TRUE,
                  !.result = computeVerdict(theSkill, call.comparisons, call.minImprovement,
                                            call.requireCompletion, call.confidenceLevel)]
    /\ UNCHANGED <<judgeVars, runVars>>

BootstrapConfidenceIntervalCall ==
    /\ call.fn = "bootstrapConfidenceInterval"
    /\ ~call.done
    /\ call' = [call EXCEPT !.done = TRUE,
                  !.result = bootstrapConfidenceInterval(call.data, call.confidenceLevel,
                                                         call.iterations)]
    /\ UNCHANGED <<judgeVars, runVars>>

(***************************************************************************)
(* metrics.ts: collectMetrics.  An event is its type and the fields of its *)
(* data the function reads; a message's content is its length, and a field *)
(* the event lacks is 0 ("" for the tool name).                            *)
(***************************************************************************)
Event(type, inputTokens, outputTokens, length, toolName) ==
    [type |-> type, inputTokens |-> inputTokens, outputTokens |-> outputTokens,
     length |-> length, toolName |-> toolName]

RECURSIVE SumInt(_)
SumInt(s) == IF s = <<>> THEN 0 ELSE Head(s) + SumInt(Tail(s))

CountType(events, types) ==
    SumInt([k \in 1..Len(events) |-> IF events[k].type \in types THEN 1 ELSE 0])

\* an assistant.usage event with a positive input or output count
IsRealUsage(e) ==
    e.type = "assistant.usage" /\ (e.inputTokens > 0 \/ e.outputTokens > 0)

\* Math.ceil(content.length / 4)
CeilQuarter(length) == (length + 3) \div 4

\* a mutant: the message-length estimate is added to the real counts
TokenEstimateMixed(events) ==
    SumInt([k \in 1..Len(events) |->
                IF IsRealUsage(events[k])
                THEN events[k].inputTokens + events[k].outputTokens ELSE 0])
    + SumInt([k \in 1..Len(events) |->
                IF events[k].type \in {"assistant.message", "user.message"}
                THEN CeilQuarter(events[k].length) ELSE 0])

TokenEstimate(events) ==
    LET hasRealTokenCounts == \E k \in 1..Len(events) : IsRealUsage(events[k])
    IN  IF hasRealTokenCounts
        THEN SumInt([k \in 1..Len(events) |->
                        IF IsRealUsage(events[k])
                        THEN events[k].inputTokens + events[k].outputTokens ELSE 0])
        ELSE SumInt([k \in 1..Len(events) |->
                        IF events[k].type \in {"assistant.message", "user.message"}
                        THEN CeilQuarter(events[k].length) ELSE 0])

\* String(event.data.toolName || "unknown")
ToolNameOf(e) == IF e.toolName = "" THEN "unknown" ELSE e.toolName

ToolCallBreakdown(events) ==
    LET starts == {k \in 1..Len(events) : events[k].type = "tool.execution_start"}
    IN  [name \in {ToolNameOf(events[k]) : k \in starts} |->
            Cardinality({k \in starts : ToolNameOf(events[k]) = name})]

collectMetrics(events, agentOutput, wallTimeMs, workDir) ==
    [tokenEstimate |-> TokenEstimate(events),
     toolCallCount |-> CountType(events, {"tool.execution_start"}),
     toolCallBreakdown |-> ToolCallBreakdown(events),
     turnCount |-> CountType(events, {"assistant.message"}),
     wallTimeMs |-> wallTimeMs,
     errorCount |-> CountType(events, {"session.error", "runner.error"}),
     assertionResults |-> <<>>,
     taskCompleted |-> FALSE,
     agentOutput |-> agentOutput,
     events |-> events,
     workDir |-> workDir]

\* the longest event list collectMetrics is given
MaxEvents == 3

AgentEvents ==
    {Event("tool.execution_start", 0, 0, 0, "bash"),
     Event("tool.execution_start", 0, 0, 0, ""),
     Event("assistant.message", 0, 0, 5, ""),
     Event("assistant.message", 0, 0, 0, ""),
     Event("user.message", 0, 0, 8, ""),
     Event("assistant.usage", 0, 0, 0, ""),
     Event("assistant.usage", 2, 0, 0, ""),
     Event("assistant.usage", 0, MaxCount, 0, ""),
     Event("session.error", 0, 0, 0, ""),
     Event("runner.error", 0, 0, 0, ""),
     Event("session.idle", 0, 0, 0, "")}

MetricsInputs(n) ==
    {[fn |-> "collectMetrics", events |-> e, done |-> FALSE, result |-> None] :
        e \in UNION {[1..len -> AgentEvents] : len \in 0..n}}

CollectMetricsCall ==
    /\ call.fn = "collectMetrics"
    /\ ~call.done
    /\ call' = [call EXCEPT !.done = TRUE,
                  !.result = collectMetrics(call.events, <<"output">>, 1, "/work")]
    /\ UNCHANGED <<judgeVars, runVars>>

InitMetrics == call \in MetricsInputs(MaxEvents) /\ Idle
SpecMetrics == InitMetrics /\ [][CollectMetricsCall]_vars

(***************************************************************************)
(* runner.ts: runAgent, step by step.  call.at is the await the function   *)
(* is suspended at; timer and idlePromise are the setTimeout handle and    *)
(* the promise of lines 125-172; awaited says that `await idlePromise` was *)
(* reached, so that a rejection has a handler.                             *)
(***************************************************************************)
\* the most session events a run delivers
MaxSessionEvents == 3

SessionEvents ==
    {Event("assistant.message", 0, 0, 5, ""),
     Event("tool.execution_start", 0, 0, 0, "bash"),
     Event("session.idle", 0, 0, 0, ""),
     Event("session.error", 0, 0, 0, "")}

RunnerError == Event("runner.error", 0, 0, 0, "")

RunnerStart ==
    [fn |-> "runAgent", at |-> "setupWorkDir", events |-> <<>>, session |-> "none",
     timer |-> "none", idlePromise |-> "none", awaited |-> FALSE, failure |-> "",
     result |-> None]

FirstFailure(kind) == IF call.failure = "" THEN kind ELSE call.failure

\* the catch block and the return after it
RunnerCaught(kind) ==
    LET events == Append(call.events, RunnerError)
    IN  call' = [call EXCEPT !.events = events, !.failure = FirstFailure(kind),
                             !.at = "returned",
                             !.result = collectMetrics(events, <<"output">>, 1, "/work")]

\* setupWorkDir is called before the try block
RunnerSetupWorkDir ==
    /\ call.fn = "runAgent" /\ call.at = "setupWorkDir"
    /\ \/ call' = [call EXCEPT !.at = "getSharedClient"]
       \/ call' = [call EXCEPT !.at = "threw", !.failure = "setup"]
    /\ UNCHANGED <<judgeVars, runVars>>

RunnerGetSharedClient ==
    /\ call.fn = "runAgent" /\ call.at = "getSharedClient"
    /\ \/ call' = [call EXCEPT !.at = "createSession"]
       \/ RunnerCaught("client")
    /\ UNCHANGED <<judgeVars, runVars>>

\* createSession, then the promise executor: the timer is armed, the listener registered
RunnerCreateSession ==
    /\ call.fn = "runAgent" /\ call.at = "createSession"
    /\ \/ call' = [call EXCEPT !.at = "send", !.session = "open", !.timer = "armed",
                                !.idlePromise = "pending"]
       \/ RunnerCaught("session")
    /\ UNCHANGED <<judgeVars, runVars>>

RunnerSend ==
    /\ call.fn = "runAgent" /\ call.at = "send"
    /\ \/ call' = [call EXCEPT !.at = "awaitIdle", !.awaited = TRUE]
       \/ RunnerCaught("send")
    /\ UNCHANGED <<judgeVars, runVars>>

\* the session.on listener: it stays registered as long as the session is not
\* destroyed, and pushes onto the array that collectMetrics returned
RunnerSessionEvent(e) ==
    /\ call.fn = "runAgent" /\ call.at \in {"send", "awaitIdle", "returned"}
    /\ call.session = "open"
    /\ Len(call.events) < MaxSessionEvents
    /\ LET settles == e.type \in {"session.idle", "session.error"}
           rejects == e.type = "session.error" /\ call.idlePromise = "pending"
       IN  call' = [call EXCEPT
                !.events = Append(call.events, e),
                !.result = IF call.at = "returned"
                           THEN [call.result EXCEPT !.events = Append(call.events, e)]
                           ELSE call.result,
                !.timer = IF settles /\ call.timer = "armed" THEN "cleared" ELSE call.timer,
                !.idlePromise =
                    IF call.idlePromise # "pending" THEN call.idlePromise
                    ELSE IF e.type = "session.idle" THEN "resolved"
                    ELSE IF e.type = "session.error" THEN "rejected"
                    ELSE "pending",
                !.failure = IF rejects THEN FirstFailure("session.error") ELSE call.failure]
    /\ UNCHANGED <<judgeVars, runVars>>

\* the setTimeout callback: nothing but clearTimeout disarms the timer
RunnerTimeout ==
    /\ call.fn = "runAgent" /\ call.timer = "armed"
    /\ call.at \in {"send", "awaitIdle", "returned"}
    /\ call' = [call EXCEPT
            !.timer = "fired",
            !.idlePromise = IF call.idlePromise = "pending" THEN "rejected"
                            ELSE call.idlePromise,
            !.failure = IF call.idlePromise = "pending" THEN FirstFailure("timeout")
                        ELSE call.failure]
    /\ UNCHANGED <<judgeVars, runVars>>

RunnerAwaitIdle ==
    /\ call.fn = "runAgent" /\ call.at = "awaitIdle"
    /\ \/ /\ call.idlePromise = "resolved"
          /\ call' = [call EXCEPT !.at = "destroy"]
       \/ /\ call.idlePromise = "rejected"
          /\ RunnerCaught(call.failure)
    /\ UNCHANGED <<judgeVars, runVars>>

RunnerDestroy ==
    /\ call.fn = "runAgent" /\ call.at = "destroy"
    /\ \/ call' = [call EXCEPT !.at = "returned", !.session = "destroyed",
                     !.result = collectMetrics(call.events, <<"output">>, 1, "/work")]
       \/ RunnerCaught("destroy")
    /\ UNCHANGED <<judgeVars, runVars>>

\* idlePromise is rejected and nothing awaits it: the runtime reports an
\* unhandled rejection, which ends the process or only warns
RunnerUnhandledRejection ==
    /\ call.fn = "runAgent" /\ call.at \in {"send", "returned"}
    /\ call.idlePromise = "rejected" /\ ~call.awaited
    /\ call' = [call EXCEPT !.at = "crashed"]
    /\ UNCHANGED <<judgeVars, runVars>>

InitRunner == call = RunnerStart /\ Idle

NextRunner ==
    \/ RunnerSetupWorkDir
    \/ RunnerGetSharedClient
    \/ RunnerCreateSession
    \/ RunnerSend
    \/ \E e \in SessionEvents : RunnerSessionEvent(e)
    \/ RunnerTimeout
    \/ RunnerAwaitIdle
    \/ RunnerDestroy
    \/ RunnerUnhandledRejection

SpecRunner == InitRunner /\ [][NextRunner]_vars

(***************************************************************************)
(* assertions.ts: the handler registry and evaluateAssertions.  The agent  *)
(* output is the text with the lower-cased values it contains and the      *)
(* patterns that match it; the work directory is the file patterns that    *)
(* match a file and the <<pattern, value>> pairs some matching file        *)
(* contains.  A message is its fixed wording.                              *)
(***************************************************************************)
Assertion(type, path, value, pattern) ==
    [type |-> type, path |-> path, value |-> value, pattern |-> pattern]

AssertionResult(assertion, passed, message) ==
    [assertion |-> assertion, passed |-> passed, message |-> message]

\* String.prototype.toLowerCase on the values used
ToLowerCase(str) == IF str = "HELLO" THEN "hello" ELSE str

\* the patterns new RegExp(pattern, "i") rejects with a SyntaxError
InvalidPatterns == {"(", "[a-"}

HandlerNames ==
    {"file_exists", "file_not_exists", "file_contains", "output_contains",
     "output_not_contains", "output_matches", "output_not_matches", "exit_success"}

\* the properties a lookup in the HANDLERS object literal also finds
InheritedNames == {"constructor"}

\* a work directory: the patterns that match a file in it, the <<pattern,
\* value>> pairs for which a matching file contains the value, the patterns
\* whose glob expansion raises, and the literal paths stat finds
WorkDir(files, contents, globErrors, literal) ==
    [files |-> files, contents |-> contents, globErrors |-> globErrors, literal |-> literal]

\* fileExistsGlob: when glob raises, stat of the literal path decides
fileExistsGlob(pattern, dir) ==
    IF pattern \in dir.globErrors THEN pattern \in dir.literal
    ELSE pattern \in dir.files

\* findMatchingFiles: the matches (a pattern stands for its one match); when
\* glob raises the error is ignored and the matches so far, none, are returned
findMatchingFiles(pattern, dir) ==
    IF pattern \in dir.globErrors THEN {}
    ELSE IF pattern \in dir.files THEN {pattern} ELSE {}

\* HANDLERS[a.type](a, ctx): the promise the handler returns, settled
Handle(a, ctx) ==
    CASE a.type = "file_exists" ->
            LET exists == fileExistsGlob(a.path, ctx.workDir)
            IN  Returned(AssertionResult(a, exists,
                    IF exists THEN "File matching found" ELSE "No file matching found"))
      [] a.type = "file_not_exists" ->
            LET exists == fileExistsGlob(a.path, ctx.workDir)
            IN  Returned(AssertionResult(a, ~exists,
                    IF ~exists THEN "No file matching found (expected)"
                    ELSE "File matching found but should not exist"))
      [] a.type = "file_contains" ->
            IF findMatchingFiles(a.path, ctx.workDir) = {}
            THEN Returned(AssertionResult(a, FALSE, "No file matching found"))
            ELSE IF \E file \in findMatchingFiles(a.path, ctx.workDir) :
                        <<file, a.value>> \in ctx.workDir.contents
            THEN Returned(AssertionResult(a, TRUE, "File contains"))
            ELSE Returned(AssertionResult(a, FALSE, "No file matching contains"))
      [] a.type = "output_contains" ->
            LET contains == ToLowerCase(a.value) \in ctx.agentOutput.contains
            IN  Returned(AssertionResult(a, contains,
                    IF contains THEN "Output contains" ELSE "Output does not contain"))
      [] a.type = "output_not_contains" ->
            LET contains == ToLowerCase(a.value) \in ctx.agentOutput.contains
            IN  Returned(AssertionResult(a, ~contains,
                    IF ~contains THEN "Output does not contain (expected)"
                    ELSE "Output contains but should not"))
      [] a.type = "output_matches" ->
            IF a.pattern \in InvalidPatterns THEN Thrown(<<"SyntaxError">>)
            ELSE LET matches == a.pattern \in ctx.agentOutput.matches
                 IN  Returned(AssertionResult(a, matches,
                        IF matches THEN "Output matches pattern"
                        ELSE "Output does not match pattern"))
      [] a.type = "output_not_matches" ->
            IF a.pattern \in InvalidPatterns THEN Thrown(<<"SyntaxError">>)
            ELSE LET matches == a.pattern \in ctx.agentOutput.matches
                 IN  Returned(AssertionResult(a, ~matches,
                        IF ~matches THEN "Output does not match pattern (expected)"
                        ELSE "Output matches pattern but should not"))
      [] a.type = "exit_success" ->
            LET success == ctx.agentOutput.length > 0
            IN  Returned(AssertionResult(a, success,
                    IF success THEN "Agent completed successfully"
                    ELSE "Agent produced no output"))
      [] a.type \in InheritedNames -> Returned(a)     \* Object(a, ctx) is a itself
      [] OTHER -> Returned(AssertionResult(a, FALSE, "Unknown assertion type"))

\* Promise.all over the handlers' promises: the results in order, or the first rejection
evaluateAssertions(assertions, agentOutput, workDir) ==
    LET ctx == [agentOutput |-> agentOutput, workDir |-> workDir]
        settled == [k \in 1..Len(assertions) |-> Handle(assertions[k], ctx)]
        rejected == {k \in 1..Len(assertions) : ~settled[k].ok}
    IN  IF rejected = {}
        THEN Returned([k \in 1..Len(assertions) |-> settled[k].value])
        ELSE Thrown(settled[CHOOSE k \in rejected : \A j \in rejected : k <= j].error)

\* the longest assertion list
MaxAssertions == 3

AssertionSamples ==
    {Assertion("file_exists", "*.cs", "", ""),
     Assertion("file_not_exists", "*.md", "", ""),
     Assertion("file_contains", "*.cs", "stackalloc", ""),
     Assertion("file_exists", "a[.txt", "", ""),
     Assertion("file_not_exists", "a[.txt", "", ""),
     Assertion("file_contains", "a[.txt", "needle", ""),
     Assertion("output_contains", "", "HELLO", ""),
     Assertion("output_not_contains", "", "missing", ""),
     Assertion("output_matches", "", "", "hel+o"),
     Assertion("output_matches", "", "", "("),
     Assertion("output_not_matches", "", "", "[a-"),
     Assertion("output_not_matches", "", "", "^bye"),
     Assertion("exit_success", "", "", ""),
     Assertion("nonexistent", "", "", ""),
     Assertion("constructor", "", "", "")}

AgentOutputs ==
    {[length |-> 0, contains |-> {""}, matches |-> {}],
     [length |-> 11, contains |-> {"", "hello", "world"}, matches |-> {"hel+o"}]}

\* a work directory with a .cs file, and with a file whose literal name is a
\* pattern that glob rejects
theWorkDir ==
    WorkDir({"*.cs"}, {<<"*.cs", "stackalloc">>, <<"a[.txt", "needle">>}, {"a[.txt"},
            {"a[.txt"})

AssertionInputs(n) ==
    {[fn |-> "evaluateAssertions", assertions |-> a, agentOutput |-> o,
      done |-> FALSE, result |-> None] :
        a \in UNION {[1..len -> AssertionSamples] : len \in 0..n}, o \in AgentOutputs}

EvaluateAssertionsCall ==
    /\ call.fn = "evaluateAssertions"
    /\ ~call.done
    /\ call' = [call EXCEPT !.done = TRUE,
                  !.result = evaluateAssertions(call.assertions, call.agentOutput,
                                                theWorkDir)]
    /\ UNCHANGED <<judgeVars, runVars>>

InitAssertions == call \in AssertionInputs(MaxAssertions) /\ Idle
SpecAssertions == InitAssertions /\ [][EvaluateAssertionsCall]_vars

(***************************************************************************)
(* judge.ts, runner.ts: the judges' permission callbacks.  A resolved path *)
(* is the sequence of its segments and a segment the sequence of its       *)
(* pieces, so that "work-evil" is <<"work", "-evil">> and the path's       *)
(* string is the pieces in order with a separator before every segment.    *)
(***************************************************************************)
sep == "/"

RECURSIVE PathString(_)
PathString(path) ==
    IF path = <<>> THEN <<>> ELSE <<sep>> \o Head(path) \o PathString(Tail(path))

\* String.prototype.startsWith
StartsWith(str, prefix) ==
    Len(prefix) <= Len(str) /\ SubSeq(str, 1, Len(prefix)) = prefix

\* path.resolve's normalisation: ".." removes the segment before it
RECURSIVE Normalize(_, _)
Normalize(done, rest) ==
    IF rest = <<>> THEN done
    ELSE IF Head(rest) = <<"..">>
         THEN Normalize(IF done = <<>> THEN <<>> ELSE SubSeq(done, 1, Len(done) - 1),
                        Tail(rest))
         ELSE Normalize(Append(done, Head(rest)), Tail(rest))

\* path.resolve(base, p): an absolute p ignores base
resolve(base, p) == Normalize(<<>>, (IF p.absolute THEN <<>> ELSE base) \o p.segments)

Path(absolute, segments) == [absolute |-> absolute, segments |-> segments]

cwd == << <<"repo">> >>
workDir == << <<"tmp">>, <<"work">> >>
skillPath == << <<"skill">> >>

Approved == [kind |-> "approved"]
Denied == [kind |-> "denied-by-rules"]

\* req.path ?? req.command ?? ""
ReqPath(req) ==
    IF req.path # None THEN req.path ELSE IF req.command # None THEN req.command ELSE None

\* runner.ts: checkPermission, relative paths resolving against the process's directory
checkPermission(req) ==
    LET reqPath == ReqPath(req)
        resolved == resolve(cwd, reqPath)
        allowedDirs == {workDir, skillPath}
    IN  IF reqPath = None THEN Approved
        ELSE IF \E dir \in allowedDirs :
                    \/ resolved = dir
                    \/ StartsWith(PathString(resolved), PathString(dir) \o <<sep>>)
             THEN Approved
             ELSE Denied

\* judge.ts: the callback judgeRunOnce gives createSession
JudgeOnPermissionRequest(req) ==
    LET reqPath == ReqPath(req)
        inWorkDir == \/ reqPath = None
                     \/ StartsWith(PathString(resolve(workDir, reqPath)), PathString(workDir))
    IN  IF req.kind \in {"read", "shell"} /\ inWorkDir THEN Approved ELSE Denied

\* pairwise-judge.ts: the callback pairwiseJudgeCall gives createSession
PairwiseOnPermissionRequest(req) == checkPermission(req)

RequestKinds == {"read", "shell", "write", "url"}

RequestPaths ==
    {Path(TRUE, << <<"tmp">>, <<"work">> >>),
     Path(TRUE, << <<"tmp">>, <<"work">>, <<"file">> >>),
     Path(TRUE, << <<"tmp">>, <<"work", "-evil">>, <<"file">> >>),
     Path(TRUE, << <<"tmp">>, <<"work">>, <<"..">>, <<"etc">> >>),
     Path(TRUE, << <<"etc">>, <<"passwd">> >>),
     Path(TRUE, << <<"skill">>, <<"file">> >>),
     Path(TRUE, << <<"skill", "-evil">> >>),
     Path(FALSE, << <<"file">> >>),
     Path(FALSE, << <<"..">>, <<"etc">> >>)}

PermissionRequests ==
    [kind : RequestKinds, path : {None} \cup RequestPaths,
     command : {None, Path(FALSE, << <<"file">> >>), Path(TRUE, << <<"etc">>, <<"passwd">> >>)}]

PermissionInputs ==
    {[fn |-> "onPermissionRequest", judge |-> j, req |-> r, done |-> FALSE, result |-> None] :
        j \in {"independent", "pairwise"}, r \in PermissionRequests}

OnPermissionRequestCall ==
    /\ call.fn = "onPermissionRequest"
    /\ ~call.done
    /\ call' = [call EXCEPT !.done = TRUE,
                  !.result = IF call.judge = "independent"
                             THEN JudgeOnPermissionRequest(call.req)
                             ELSE PairwiseOnPermissionRequest(call.req)]
    /\ UNCHANGED <<judgeVars, runVars>>

InitPermission == call \in PermissionInputs /\ Idle
SpecPermission == InitPermission /\ [][OnPermissionRequestCall]_vars

\* the scores a judge reply may carry: missing or non-numeric (Undef), zero,
\* negative, below 1, fractional, integer, above 5
RawScores == {Undef, Zero, Num(-2), <<1, 2>>, <<9, 2>>, <<449, 100>>, Num(4), Num(7)}

JudgeContents(n) ==
    {NoJson, Malformed} \cup
    {Object([rubric_scores |->
                [k \in 1..Len(l) |->
                    [criterion |-> k, score |-> l[k], reasoning |-> <<"judge">>]],
             overall_score |-> o, overall_reasoning |-> <<"judge">>]) :
        l \in UNION {[1..len -> RawScores] : len \in 0..n}, o \in RawScores}

ParseInputs(n) ==
    {[fn |-> "parseJudgeResponse", content |-> c, done |-> FALSE, result |-> None] :
        c \in JudgeContents(n)}

ParseJudgeResponseCall ==
    /\ call.fn = "parseJudgeResponse"
    /\ ~call.done
    /\ call' = [call EXCEPT !.done = TRUE, !.result = parseJudgeResponse(call.content)]
    /\ UNCHANGED <<judgeVars, runVars>>

InitParse == call \in ParseInputs(MaxRubric) /\ Idle
SpecParse == InitParse /\ [][ParseJudgeResponseCall]_vars

InitCompare == call \in CompareInputs(RunResultSet, {None} \cup PairwiseSamples) /\ Idle
SpecCompare == InitCompare /\ [][CompareScenarioCall]_vars

InitScore == call \in ScoreInputs(MaxRubric) /\ Idle
SpecScore == InitScore /\ [][PairwiseToQualityScoreCall]_vars

InitBootstrap == call \in BootstrapInputs(MaxData, MaxIterations) /\ Idle
SpecBootstrap == InitBootstrap /\ [][BootstrapConfidenceIntervalCall]_vars

InitVerdict == call \in VerdictInputs(MaxScenarios) /\ Idle
SpecVerdict == InitVerdict /\ [][ComputeVerdictCall]_vars

(***************************************************************************)
(* pairwiseJudge called on its own: both directions running.               *)
(***************************************************************************)
InitPairwise ==
    /\ call = NoCall
    /\ cfg = NoConfig
    /\ pc = "idle"
    /\ iteration = 0
    /\ agent = [a \in Arms |-> [status |-> "idle", metrics |-> None]]
    /\ chain = [r \in RunIds |->
                [stage |-> "idle", baselineMetrics |-> None, withSkillMetrics |-> None]]
    /\ task = [t \in TaskIds |->
                IF t[1] = 1 /\ t[2] \in Directions THEN StartedTask ELSE IdleTask]
    /\ pairwise = [r \in RunIds |->
                    IF r = 1 THEN [status |-> "pending", result |-> None] ELSE IdlePairwise]
    /\ sessions = {}
    /\ baselineRuns = <<>>
    /\ withSkillRuns = <<>>
    /\ perRunPairwise = [r \in RunIds |-> None]
    /\ exitCode = -1
    /\ verdicts = <<>>

NextPairwise ==
    \/ \E t \in TaskIds : pairwiseJudgeOnce(t, PairwiseReplies(MaxRubric))
    \/ \E r \in RunIds : pairwiseJudge(r)

SpecPairwise == InitPairwise /\ [][NextPairwise]_vars

(***************************************************************************)
(* A judge call on its own, against an evaluator that may fail in every    *)
(* way at every attempt: judgeRun for one arm, or pairwiseJudge with its   *)
(* two directions.                                                         *)
(***************************************************************************)
JudgeRetryReplies ==
    Failures \cup {Content(Object(JudgeAnswer(Num(4)))), Content(Object(JudgeAnswer(Undef)))}

PairwiseRetryReplies ==
    Failures \cup
    {Content(Object(PairwiseAnswer(<< <<"B", "much_better">> >>, "B", "much_better"))),
     Content(Object(PairwiseAnswer(<<>>, "tie", "")))}

InitRetry ==
    /\ call = NoCall
    /\ cfg = NoConfig
    /\ pc = "idle"
    /\ iteration = 0
    /\ agent = [a \in Arms |-> [status |-> "idle", metrics |-> None]]
    /\ chain = [r \in RunIds |->
                [stage |-> "idle", baselineMetrics |-> None, withSkillMetrics |-> None]]
    /\ \/ /\ task = [t \in TaskIds |-> IF t = <<1, "baseline">> THEN StartedTask ELSE IdleTask]
          /\ pairwise = [r \in RunIds |-> IdlePairwise]
       \/ /\ task = [t \in TaskIds |->
                        IF t[1] = 1 /\ t[2] \in Directions THEN StartedTask ELSE IdleTask]
          /\ pairwise = [r \in RunIds |->
                            IF r = 1 THEN [status |-> "pending", result |-> None]
                            ELSE IdlePairwise]
    /\ sessions = {}
    /\ baselineRuns = <<>>
    /\ withSkillRuns = <<>>
    /\ perRunPairwise = [r \in RunIds |-> None]
    /\ exitCode = -1
    /\ verdicts = <<>>

NextRetry ==
    \/ \E t \in TaskIds : judgeRun(t, JudgeRetryReplies)
    \/ \E t \in TaskIds : pairwiseJudgeOnce(t, PairwiseRetryReplies)
    \/ \E r \in RunIds : pairwiseJudge(r)

SpecRetry == InitRetry /\ [][NextRetry]_vars

(***************************************************************************)
(* cli.ts: run(), for one skill with one scenario that has no assertions.  *)
(* pc is "start" once the model is validated and the skill discovered,     *)
(* "agents" while an iteration's two runAgent calls are awaited, "await"   *)
(* at await Promise.all(pendingJudges), "done" once run() has returned and *)
(* "crashed" when the process died of an unhandled rejection.              *)
(***************************************************************************)
JudgeModes == {"pairwise", "independent", "both"}

\* the configuration, with the assertions of the scenario that is run (None
\* when the scenario has none)
Configs ==
    [runs : 1..MaxRuns, judgeMode : JudgeModes, minImprovement : {<<1, 10>>},
     requireCompletion : {TRUE}, confidenceLevel : {<<19, 20>>}, assertions : {None}]
    \cup
    [runs : {1}, judgeMode : JudgeModes, minImprovement : {<<1, 10>>},
     requireCompletion : {TRUE}, confidenceLevel : {<<19, 20>>},
     assertions : {<<Assertion("file_exists", "*.cs", "", ""),
                    Assertion("output_contains", "", "HELLO", "")>>}]

\* the files of the directory the process runs in, and of the work directory
\* an agent run leaves behind: the skill run wrote a .cs file, the baseline none
CwdContents == WorkDir({"*.md"}, {}, {}, {})
WorkDirContents(dir) ==
    IF dir[2] = "withSkill" THEN WorkDir({"*.cs"}, {<<"*.cs", "stackalloc">>}, {}, {})
    ELSE WorkDir({}, {}, {}, {})

usePairwise == cfg.judgeMode = "pairwise" \/ cfg.judgeMode = "both"

\* what runAgent may return for run attempt r: errors or none
AgentMetrics(r, arm) ==
    {[tokenEstimate |-> IF arm = "baseline" THEN 2 ELSE 1, toolCallCount |-> 1,
      wallTimeMs |-> 1, errorCount |-> e, assertionResults |-> <<>>,
      taskCompleted |-> FALSE,
      agentOutput |-> [length |-> 11, contains |-> {"", "hello", "world"}, matches |-> {}],
      workDir |-> <<r, arm>>] : e \in {0, 1}}

\* within run() the evaluator is up or down for a whole judge call: a call whose
\* first attempt failed sees its retries fail too
JudgeReplies(t) ==
    {Failure("sendError")}
    \cup (IF task[t].attempt = 0
          THEN {Content(Object(JudgeAnswer(Num(IF t[2] = "withSkill" THEN 5 ELSE 3))))}
          ELSE {})

\* the evaluator's replies to a pairwise call, likewise
PairwiseRunReplies(t) ==
    {Content(NoJson)}
    \cup (IF task[t].attempt = 0
          THEN {Content(Object(PairwiseAnswer(<< <<"B", "much_better">> >>, "B",
                                              "much_better")))}
          ELSE {})

avg(nums) == RDiv(RSum(nums), Num(Len(nums)))
round1(n) == RDiv(Num(RRound(RMul(n, Num(10)))), Num(10))

averageResults(runs) ==
    IF Len(runs) = 1 THEN runs[1]
    ELSE
        LET n == Len(runs)
            first == runs[1]
            last == runs[n]
            rubricScore(r, k) ==
                IF k <= Len(r.judgeResult.rubricScores)
                THEN r.judgeResult.rubricScores[k].score ELSE Num(3)
        IN  [metrics |->
                [tokenEstimate |-> RRound(avg([k \in 1..n |-> Num(runs[k].metrics.tokenEstimate)])),
                 toolCallCount |-> RRound(avg([k \in 1..n |-> Num(runs[k].metrics.toolCallCount)])),
                 wallTimeMs |-> RRound(avg([k \in 1..n |-> Num(runs[k].metrics.wallTimeMs)])),
                 errorCount |-> RRound(avg([k \in 1..n |-> Num(runs[k].metrics.errorCount)])),
                 assertionResults |-> last.metrics.assertionResults,
                 taskCompleted |-> \E k \in 1..n : runs[k].metrics.taskCompleted,
                 agentOutput |-> last.metrics.agentOutput,
                 workDir |-> last.metrics.workDir],
             judgeResult |->
                [rubricScores |->
                    [c \in 1..Len(first.judgeResult.rubricScores) |->
                        [criterion |-> first.judgeResult.rubricScores[c].criterion,
                         score |-> round1(avg([k \in 1..n |-> rubricScore(runs[k], c)])),
                         reasoning |-> first.judgeResult.rubricScores[c].reasoning]],
                 overallScore |-> round1(avg([k \in 1..n |-> runs[k].judgeResult.overallScore])),
                 overallReasoning |-> last.judgeResult.overallReasoning]]

\* perRunPairwise.find((pw) => pw?.positionSwapConsistent) ?? perRunPairwise[0]
bestPairwise(array) ==
    LET consistent == {r \in RunIds : array[r] # None /\ array[r].positionSwapConsistent}
    IN  IF consistent = {} THEN array[1]
        ELSE array[CHOOSE r \in consistent : \A q \in consistent : r <= q]

\* the scenario's comparison, built after all judges have settled
ScenarioComparison(baselines, withSkills, pairwiseArray) ==
    LET perRunScores ==
            [k \in 1..Len(baselines) |->
                compareScenario("scenario", baselines[k], withSkills[k],
                                pairwiseArray[k]).improvementScore]
        comparison == compareScenario("scenario", averageResults(baselines),
                                      averageResults(withSkills), bestPairwise(pairwiseArray))
    IN  [comparison EXCEPT !.perRunScores = [scores |-> perRunScores]]

IdleAgent == [status |-> "idle", metrics |-> None]
IdleChain == [stage |-> "idle", baselineMetrics |-> None, withSkillMetrics |-> None]

\* the model is valid and the skill found: the first iteration starts both agents
RunStart ==
    /\ pc = "start"
    /\ pc' = "agents"
    /\ iteration' = 1
    /\ agent' = [a \in Arms |-> [status |-> "running", metrics |-> None]]
    /\ UNCHANGED <<call, cfg, chain, judgeVars, baselineRuns, withSkillRuns, perRunPairwise,
                   exitCode, verdicts>>

\* one of the two agent runs of the iteration returns its metrics
runAgent(arm) ==
    /\ pc = "agents"
    /\ agent[arm].status = "running"
    /\ \E m \in AgentMetrics(iteration, arm) :
        agent' = [agent EXCEPT ![arm] = [status |-> "done", metrics |-> m]]
    /\ UNCHANGED <<call, cfg, pc, iteration, chain, judgeVars, baselineRuns, withSkillRuns,
                   perRunPairwise, exitCode, verdicts>>

\* the directory run() hands to evaluateAssertions for a run's metrics
AssertionDir(m) == CwdContents

\* lines 272-291: the assertion results and the completion flag of a run
WithAssertions(m) ==
    IF cfg.assertions # None
    THEN LET results == evaluateAssertions(cfg.assertions, m.agentOutput,
                                           AssertionDir(m)).value
         IN  [m EXCEPT !.assertionResults = results,
                       !.taskCompleted = \A k \in 1..Len(results) : results[k].passed]
    ELSE [m EXCEPT !.taskCompleted = (m.errorCount = 0)]

\* both agents are back: evaluate the assertions and set taskCompleted, start
\* the judges of this run attempt in the background, and go on to the next
\* iteration or to the await
AfterAgents ==
    /\ pc = "agents"
    /\ \A a \in Arms : agent[a].status = "done"
    /\ LET completed(m) == WithAssertions(m)
       IN  chain' = [chain EXCEPT ![iteration] =
                        [stage |-> "independent",
                         baselineMetrics |-> completed(agent["baseline"].metrics),
                         withSkillMetrics |-> completed(agent["withSkill"].metrics)]]
    /\ task' = [t \in TaskIds |->
                    IF t[1] = iteration /\ t[2] \in Arms THEN StartedTask ELSE task[t]]
    /\ IF iteration < cfg.runs
       THEN /\ iteration' = iteration + 1
            /\ agent' = [a \in Arms |-> [status |-> "running", metrics |-> None]]
            /\ pc' = "agents"
       ELSE /\ iteration' = iteration
            /\ agent' = [a \in Arms |-> IdleAgent]
            /\ pc' = "await"
    /\ UNCHANGED <<call, cfg, pairwise, sessions, baselineRuns, withSkillRuns,
                   perRunPairwise, exitCode, verdicts>>

\* the judgePromise of run attempt r after its two judgeRun calls: rejected by
\* the first that throws; else both results are pushed and, in pairwise mode,
\* pairwiseJudge is called
ChainIndependent(r) ==
    /\ Alive
    /\ chain[r].stage = "independent"
    /\ LET b == task[<<r, "baseline">>]
           w == task[<<r, "withSkill">>]
       IN  \/ /\ b.status = "threw" \/ w.status = "threw"
              /\ chain' = [chain EXCEPT ![r].stage = "rejected"]
              /\ UNCHANGED <<task, pairwise, baselineRuns, withSkillRuns>>
           \/ /\ b.status = "returned" /\ w.status = "returned"
              /\ baselineRuns' = Append(baselineRuns,
                    [metrics |-> chain[r].baselineMetrics, judgeResult |-> b.result])
              /\ withSkillRuns' = Append(withSkillRuns,
                    [metrics |-> chain[r].withSkillMetrics, judgeResult |-> w.result])
              /\ IF usePairwise
                 THEN /\ chain' = [chain EXCEPT ![r].stage = "pairwise"]
                      /\ pairwise' = [pairwise EXCEPT ![r] = [status |-> "pending",
                                                              result |-> None]]
                      /\ task' = [t \in TaskIds |->
                                    IF t[1] = r /\ t[2] \in Directions THEN StartedTask
                                    ELSE task[t]]
                 ELSE /\ chain' = [chain EXCEPT ![r].stage = "resolved"]
                      /\ UNCHANGED <<task, pairwise>>
    /\ UNCHANGED <<call, cfg, pc, iteration, agent, sessions, perRunPairwise, exitCode,
                   verdicts>>

\* the judgePromise after pairwiseJudge settled: the result is stored, a
\* failure is caught and stored as undefined
ChainPairwise(r) ==
    /\ Alive
    /\ chain[r].stage = "pairwise"
    /\ pairwise[r].status \in {"resolved", "rejected"}
    /\ perRunPairwise' = [perRunPairwise EXCEPT ![r] =
            IF pairwise[r].status = "resolved" THEN pairwise[r].result ELSE None]
    /\ chain' = [chain EXCEPT ![r].stage = "resolved"]
    /\ UNCHANGED <<call, cfg, pc, iteration, agent, judgeVars, baselineRuns, withSkillRuns,
                   exitCode, verdicts>>

\* await Promise.all(pendingJudges) rejects: the evaluation is aborted
AbortOnJudgeFailure ==
    /\ pc = "await"
    /\ \E r \in 1..cfg.runs : chain[r].stage = "rejected"
    /\ pc' = "done"
    /\ exitCode' = 1
    /\ UNCHANGED <<call, cfg, iteration, agent, chain, judgeVars, baselineRuns,
                   withSkillRuns, perRunPairwise, verdicts>>

\* await Promise.all(pendingJudges) resolves: comparison, verdict, report, return
Complete ==
    /\ pc = "await"
    /\ \A r \in 1..cfg.runs : chain[r].stage = "resolved"
    /\ LET comparison == ScenarioComparison(baselineRuns, withSkillRuns, perRunPairwise)
           verdict == computeVerdict(theSkill, <<comparison>>, cfg.minImprovement,
                                     cfg.requireCompletion, cfg.confidenceLevel)
       IN  /\ verdicts' = Append(verdicts, verdict)
           /\ exitCode' = IF verdict.passed THEN 0 ELSE 1
    /\ pc' = "done"
    /\ UNCHANGED <<call, cfg, iteration, agent, chain, judgeVars, baselineRuns,
                   withSkillRuns, perRunPairwise>>

\* a judgePromise rejected while run() is still awaiting agents has no handler:
\* the runtime may end the process
UnhandledRejection ==
    /\ pc = "agents"
    /\ \E r \in 1..cfg.runs : chain[r].stage = "rejected"
    /\ pc' = "crashed"
    /\ exitCode' = 1
    /\ UNCHANGED <<call, cfg, iteration, agent, chain, judgeVars, baselineRuns,
                   withSkillRuns, perRunPairwise, verdicts>>

Init ==
    /\ call = NoCall
    /\ cfg \in Configs
    /\ pc = "start"
    /\ iteration = 0
    /\ agent = [a \in Arms |-> IdleAgent]
    /\ chain = [r \in RunIds |-> IdleChain]
    /\ task = [t \in TaskIds |-> IdleTask]
    /\ pairwise = [r \in RunIds |-> IdlePairwise]
    /\ sessions = {}
    /\ baselineRuns = <<>>
    /\ withSkillRuns = <<>>
    /\ perRunPairwise = [r \in RunIds |-> None]
    /\ exitCode = -1
    /\ verdicts = <<>>

Next ==
    \/ RunStart
    \/ \E a \in Arms : runAgent(a)
    \/ AfterAgents
    \/ \E t \in TaskIds : judgeRun(t, JudgeReplies(t))
    \/ \E t \in TaskIds : pairwiseJudgeOnce(t, PairwiseRunReplies(t))
    \/ \E r \in RunIds : pairwiseJudge(r)
    \/ \E r \in RunIds : ChainIndependent(r)
    \/ \E r \in RunIds : ChainPairwise(r)
    \/ AbortOnJudgeFailure
    \/ Complete
    \/ UnhandledRejection

Spec == Init /\ [][Next]_vars

(***************************************************************************)
(* Claims about pairwiseToQualityScore (checked under SpecScore).          *)
(***************************************************************************)
\* the magnitude lookup as the documentation states it
StatedLookup(m) ==
    CASE m = "much-better" -> <<1, 1>>
      [] m = "slightly-better" -> <<2, 5>>
      [] m = "equal" -> <<0, 1>>
      [] m = "slightly-worse" -> <<-2, 5>>
      [] m = "much-worse" -> <<-1, 1>>

\* the sign rule that keeps the lookup's own sign for a skill winner
LookupSignRule(w, m) ==
    IF w = "skill" THEN StatedLookup(m)
    ELSE IF w = "baseline" THEN RNeg(StatedLookup(m))
    ELSE Zero

\* the sign rule that lets the winner alone decide the sign
WinnerSignRule(w, m) ==
    IF w = "skill" THEN RAbs(StatedLookup(m))
    ELSE IF w = "baseline" THEN RNeg(RAbs(StatedLookup(m)))
    ELSE Zero

ScoreDone == call.fn = "pairwiseToQualityScore" /\ call.done

\* C9 as stated: the overall score is lookup(m) for a skill winner, -lookup(m)
\* for a baseline winner and 0 for a tie, and a criterion's score follows the
\* same rule (seen through the quality score of a one-criterion result).
C9_LookupSignedByWinner ==
    ScoreDone =>
        LET p == call.pairwise
        IN  /\ call.result.overallImprovement = LookupSignRule(p.overallWinner, p.overallMagnitude)
            /\ Len(p.rubricResults) = 1 =>
                call.result.qualityImprovement =
                    LookupSignRule(p.rubricResults[1].winner, p.rubricResults[1].magnitude)

\* C9 amended: the overall score is |lookup(m)| for a skill winner, -|lookup(m)|
\* for a baseline winner and 0 for a tie, for all 3 x 5 combinations, and a
\* criterion's score follows the same rule.
C9_MagnitudeSignedByWinner ==
    ScoreDone =>
        LET p == call.pairwise
        IN  /\ call.result.overallImprovement = WinnerSignRule(p.overallWinner, p.overallMagnitude)
            /\ Len(p.rubricResults) = 1 =>
                call.result.qualityImprovement =
                    WinnerSignRule(p.rubricResults[1].winner, p.rubricResults[1].magnitude)

\* a skill winner reported with a "worse" magnitude scores positive
C9_Witness ==
    /\ ScoreDone
    /\ call.pairwise.overallWinner = "skill"
    /\ call.pairwise.overallMagnitude = "slightly-worse"
    /\ call.result.overallImprovement = <<2, 5>>
    /\ Len(call.pairwise.rubricResults) = 1
    /\ call.pairwise.rubricResults[1].winner = "baseline"
    /\ call.pairwise.rubricResults[1].magnitude = "much-worse"
    /\ call.result.qualityImprovement = MinusOne

InUnit(x) == RLeq(MinusOne, x) /\ RLeq(x, One)

\* C10: overallImprovement is never negative for a skill winner, never positive
\* for a baseline winner and 0 for a tie whatever the magnitude;
\* qualityImprovement is the mean of the criteria's values under the same rule,
\* 0 when there are no criteria; both outputs are in [-1, 1].
C10_ScoresAsTested ==
    ScoreDone =>
        LET p == call.pairwise
            r == call.result
            n == Len(p.rubricResults)
            values == [k \in 1..n |->
                        WinnerSignRule(p.rubricResults[k].winner, p.rubricResults[k].magnitude)]
        IN  /\ p.overallWinner = "skill" =>
                r.overallImprovement = RAbs(StatedLookup(p.overallMagnitude))
                /\ RLeq(Zero, r.overallImprovement)
            /\ p.overallWinner = "baseline" =>
                r.overallImprovement = RNeg(RAbs(StatedLookup(p.overallMagnitude)))
                /\ RLeq(r.overallImprovement, Zero)
            /\ p.overallWinner = "tie" => r.overallImprovement = Zero
            /\ n = 0 => r.qualityImprovement = Zero
            /\ n > 0 => r.qualityImprovement = RDiv(RSum(values), Num(n))
            /\ InUnit(r.overallImprovement)
            /\ InUnit(r.qualityImprovement)

\* two criteria of different value are averaged, under a tie whose magnitude is not "equal"
C10_Witness ==
    /\ ScoreDone
    /\ call.pairwise.overallWinner = "tie"
    /\ call.pairwise.overallMagnitude = "much-better"
    /\ call.result.overallImprovement = Zero
    /\ Len(call.pairwise.rubricResults) = 2
    /\ call.pairwise.rubricResults[1].winner = "skill"
    /\ call.pairwise.rubricResults[1].magnitude = "much-worse"
    /\ call.pairwise.rubricResults[2].winner = "baseline"
    /\ call.pairwise.rubricResults[2].magnitude = "slightly-better"
    /\ call.result.qualityImprovement = <<3, 10>>

(***************************************************************************)
(* Claims about compareScenario (checked under SpecCompare).               *)
(***************************************************************************)
CompareDone == call.fn = "compareScenario" /\ call.done

BreakdownFields ==
    {"tokenReduction", "toolCallReduction", "taskCompletionImprovement", "timeReduction",
     "qualityImprovement", "overallJudgmentImprovement", "errorReduction"}

\* C6: each of the seven breakdown fields lies in [-1, 1], with and without a
\* pairwise result, for non-negative counts and judge scores in [1, 5].
C6_BreakdownInUnitRange ==
    CompareDone =>
        /\ DOMAIN call.result.breakdown = BreakdownFields
        /\ \A f \in BreakdownFields : InUnit(call.result.breakdown[f])

\* a pairwise result is supplied and a threefold token increase is clamped to -1
C6_Witness ==
    /\ CompareDone
    /\ call.pairwiseResult # None
    /\ call.baseline.metrics.tokenEstimate = 1
    /\ call.withSkill.metrics.tokenEstimate = MaxCount
    /\ call.result.breakdown.tokenReduction = MinusOne
    /\ call.baseline.metrics.errorCount = 0
    /\ call.withSkill.metrics.errorCount = 1
    /\ call.result.breakdown.errorReduction = MinusOne
    /\ call.result.breakdown.qualityImprovement = One

\* C7: improvementScore is 0.40 quality + 0.30 overall judgment + 0.15 task
\* completion + 0.05 tokens + 0.05 errors + 0.025 tool calls + 0.025 time; the
\* weights sum to 1; the score is in [-1, 1]; identical runs without a
\* pairwise result score exactly 0.
C7_WeightedScore ==
    CompareDone =>
        LET b == call.result.breakdown
            stated == RSum(<< RMul(<<2, 5>>, b.qualityImprovement),
                              RMul(<<3, 10>>, b.overallJudgmentImprovement),
                              RMul(<<3, 20>>, b.taskCompletionImprovement),
                              RMul(<<1, 20>>, b.tokenReduction),
                              RMul(<<1, 20>>, b.errorReduction),
                              RMul(<<1, 40>>, b.toolCallReduction),
                              RMul(<<1, 40>>, b.timeReduction) >>)
        IN  /\ call.result.improvementScore = stated
            /\ RSum([k \in 1..Len(DEFAULT_WEIGHTS) |-> DEFAULT_WEIGHTS[k][2]]) = One
            /\ Len(DEFAULT_WEIGHTS) = 7
            /\ InUnit(call.result.improvementScore)
            /\ (call.baseline = call.withSkill /\ call.pairwiseResult = None) =>
                    call.result.improvementScore = Zero

\* identical runs score 0
C7_Witness ==
    /\ CompareDone
    /\ call.baseline = call.withSkill
    /\ call.pairwiseResult = None
    /\ call.baseline.metrics.tokenEstimate = MaxCount
    /\ Len(call.baseline.judgeResult.rubricScores) = 2
    /\ call.result.improvementScore = Zero

\* C8: with a pairwise result supplied, the two quality fields are the outputs
\* of pairwiseToQualityScore whatever the judge scores are, the other five
\* fields are those computed without a pairwise result, and the result is
\* returned as pairwiseResult; an inconsistent result is treated the same.
C8_PairwiseOverridesQuality ==
    (CompareDone /\ call.pairwiseResult # None) =>
        LET b == call.result.breakdown
            scores == pairwiseToQualityScore(call.pairwiseResult)
            plain == compareScenario("scenario", call.baseline, call.withSkill, None).breakdown
        IN  /\ b.qualityImprovement = scores.qualityImprovement
            /\ b.overallJudgmentImprovement = scores.overallImprovement
            /\ \A f \in BreakdownFields \ {"qualityImprovement", "overallJudgmentImprovement"} :
                    b[f] = plain[f]
            /\ call.result.pairwiseResult = call.pairwiseResult

\* an inconsistent result overrides judge scores that fell from 5 to 1
C8_Witness ==
    /\ CompareDone
    /\ call.pairwiseResult # None
    /\ ~call.pairwiseResult.positionSwapConsistent
    /\ call.baseline.judgeResult.overallScore = Num(5)
    /\ call.withSkill.judgeResult.overallScore = Num(1)
    /\ call.result.breakdown.qualityImprovement = <<7, 10>>
    /\ call.result.breakdown.overallJudgmentImprovement = Zero
    /\ call.result.pairwiseResult = call.pairwiseResult

\* the reduction as stated for a baseline value b and a skill value s
StatedReduction(b, s) ==
    IF b > 0
    THEN LET ratio == Norm(b - s, b)
         IN  IF RLt(ratio, MinusOne) THEN MinusOne
             ELSE IF RLt(One, ratio) THEN One ELSE ratio
    ELSE IF s = 0 THEN Zero ELSE MinusOne

\* C11: each of the four efficiency reductions (tokens, tool calls, time,
\* errors) is (b-s)/b clamped to [-1, 1] when the baseline b > 0, 0 when
\* b = 0 and s = 0, and -1 when b = 0 and s > 0; halving gives exactly 0.5.
C11_EfficiencyReductions ==
    CompareDone =>
        LET b == call.baseline.metrics
            s == call.withSkill.metrics
            r == call.result.breakdown
        IN  /\ r.tokenReduction = StatedReduction(b.tokenEstimate, s.tokenEstimate)
            /\ r.toolCallReduction = StatedReduction(b.toolCallCount, s.toolCallCount)
            /\ r.timeReduction = StatedReduction(b.wallTimeMs, s.wallTimeMs)
            /\ r.errorReduction = StatedReduction(b.errorCount, s.errorCount)
            /\ (b.wallTimeMs = 2 * s.wallTimeMs /\ b.wallTimeMs > 0) =>
                    r.timeReduction = <<1, 2>>

\* a halved time, a zero baseline with and without a skill value, an increase
C11_Witness ==
    /\ CompareDone
    /\ call.baseline.metrics.wallTimeMs = 2
    /\ call.withSkill.metrics.wallTimeMs = 1
    /\ call.result.breakdown.timeReduction = <<1, 2>>
    /\ call.baseline.metrics.toolCallCount = 0
    /\ call.withSkill.metrics.toolCallCount = MaxCount
    /\ call.result.breakdown.toolCallReduction = MinusOne
    /\ call.baseline.metrics.tokenEstimate = 0
    /\ call.withSkill.metrics.tokenEstimate = 0
    /\ call.result.breakdown.tokenReduction = Zero
    /\ call.baseline.metrics.errorCount = 1
    /\ call.withSkill.metrics.errorCount = 0
    /\ call.result.breakdown.errorReduction = One

(***************************************************************************)
(* Claims about computeVerdict (checked under SpecVerdict).                *)
(***************************************************************************)
VerdictDone == call.fn = "computeVerdict" /\ call.done

CompletionRegressed ==
    \E k \in 1..Len(call.comparisons) :
        /\ call.comparisons[k].baseline.metrics.taskCompleted
        /\ ~call.comparisons[k].withSkill.metrics.taskCompleted

MeanImprovement ==
    RDiv(RSum([k \in 1..Len(call.comparisons) |-> call.comparisons[k].improvementScore]),
         Num(Len(call.comparisons)))

\* C3: passed iff the comparisons are non-empty, no completion regression
\* counts (requireCompletion with a baseline-completed / skill-not-completed
\* comparison), and the mean improvement score reaches minImprovement; a
\* counted regression fails the verdict with a reason naming it.
C3_PassedIff ==
    VerdictDone =>
        /\ call.result.passed <=>
            /\ Len(call.comparisons) > 0
            /\ ~(call.requireCompletion /\ CompletionRegressed)
            /\ RLeq(call.minImprovement, MeanImprovement)
        /\ (Len(call.comparisons) > 0 /\ call.requireCompletion /\ CompletionRegressed) =>
            /\ ~call.result.passed
            /\ call.result.reason =
                    <<"Skill regressed on task completion in one or more scenarios">>

\* a regression fails a verdict whose score is positive and whose threshold is 0
C3_Witness ==
    /\ VerdictDone
    /\ Len(call.comparisons) > 0
    /\ call.requireCompletion
    /\ CompletionRegressed
    /\ call.minImprovement = Zero
    /\ RLt(Zero, MeanImprovement)
    /\ ~call.result.passed

\* judge overall scores rescaled from [1, 5] to [0, 1]
Pre(c) == RDiv(RSub(c.baseline.judgeResult.overallScore, One), Num(4))
Post(c) == RDiv(RSub(c.withSkill.judgeResult.overallScore, One), Num(4))

StatedGain(c) ==
    IF RLt(Pre(c), One) THEN RDiv(RSub(Post(c), Pre(c)), RSub(One, Pre(c)))
    ELSE IF RLeq(Pre(c), Post(c)) THEN Zero
    ELSE RSub(Post(c), Pre(c))

\* C14: the per-scenario gain is (post-pre)/(1-pre) when pre < 1, 0 when
\* pre >= 1 and post >= pre, and post-pre when pre >= 1 and post < pre; no
\* division by zero occurs; the verdict's normalizedGain is the arithmetic
\* mean of the per-scenario gains.
C14_NormalizedGain ==
    (VerdictDone /\ Len(call.comparisons) > 0) =>
        LET cs == call.comparisons
        IN  /\ \A k \in 1..Len(cs) : RLt(Pre(cs[k]), One) => RSub(One, Pre(cs[k])) # Zero
            /\ IsDefined(call.result.normalizedGain)
            /\ call.result.normalizedGain =
                    RDiv(RSum([k \in 1..Len(cs) |-> StatedGain(cs[k])]), Num(Len(cs)))

\* a drop from the ceiling (5 to 1, gain -1) averaged with a gain of 1 (3 to 5)
C14_Witness ==
    /\ VerdictDone
    /\ Len(call.comparisons) = 2
    /\ call.comparisons[1].baseline.judgeResult.overallScore = Num(5)
    /\ call.comparisons[1].withSkill.judgeResult.overallScore = Num(1)
    /\ call.comparisons[2].baseline.judgeResult.overallScore = Num(3)
    /\ call.comparisons[2].withSkill.judgeResult.overallScore = Num(5)
    /\ call.result.normalizedGain = Zero

\* the verdict carries a significance flag that is false
NotSignificant ==
    /\ VerdictDone
    /\ "isSignificant" \in DOMAIN call.result
    /\ ~call.result.isSignificant

ReasonFlagsNonSignificance ==
    \E k \in 1..Len(call.result.reason) :
        call.result.reason[k] = "(not statistically significant)"

ExcludesZero(ci) == RLt(Zero, ci.low) \/ RLt(ci.high, Zero)

\* C13 as stated: whenever the verdict has isSignificant = false (its interval
\* does not satisfy low > 0 or high < 0), the reason says that the result is
\* not statistically significant.
C13_NonSignificanceFlagged ==
    /\ (VerdictDone /\ "isSignificant" \in DOMAIN call.result) =>
            (call.result.isSignificant <=> ExcludesZero(call.result.confidenceInterval))
    /\ NotSignificant => ReasonFlagsNonSignificance

\* C13 amended: isSignificant is (low > 0 or high < 0) of the verdict's
\* interval, and the reason says "not statistically significant" exactly when
\* isSignificant is false, more than one per-run score was pooled and the
\* verdict is not the completion-regression verdict.
C13_NonSignificanceFlaggedWhenPooled ==
    (VerdictDone /\ "isSignificant" \in DOMAIN call.result) =>
        /\ call.result.isSignificant <=> ExcludesZero(call.result.confidenceInterval)
        /\ ReasonFlagsNonSignificance <=>
                /\ ~call.result.isSignificant
                /\ Len(AllPerRunScores(call.comparisons)) > 1
                /\ ~(call.requireCompletion /\ CompletionRegressed)

\* pooled scores whose interval spans zero are flagged
C13_Witness ==
    /\ NotSignificant
    /\ Len(AllPerRunScores(call.comparisons)) > 1
    /\ ~CompletionRegressed
    /\ RLt(call.result.confidenceInterval.low, Zero)
    /\ RLt(Zero, call.result.confidenceInterval.high)
    /\ ReasonFlagsNonSignificance

(***************************************************************************)
(* Claims about bootstrapConfidenceInterval (checked under SpecBootstrap). *)
(***************************************************************************)
BootstrapDone == call.fn = "bootstrapConfidenceInterval" /\ call.done

\* the means of the resamples (with replacement) of data
ResampleMeans(data) ==
    {RDiv(RSum([j \in 1..Len(data) |-> data[f[j]]]), Num(Len(data))) :
        f \in [1..Len(data) -> 1..Len(data)]}

\* C12: the interval is well formed: low = high = 0 for empty data, low =
\* high = data[0] for one observation, and for two or more observations,
\* any level in (0, 1) and any iterations >= 1, low and high are means of
\* resamples of data with min(data) <= low <= high <= max(data).
C12_WellFormedInterval ==
    BootstrapDone =>
        LET data == call.data
            ci == call.result
        IN  /\ ci.level = call.confidenceLevel
            /\ Len(data) = 0 => ci.low = Zero /\ ci.high = Zero
            /\ Len(data) = 1 => ci.low = data[1] /\ ci.high = data[1]
            /\ Len(data) >= 2 =>
                    /\ ci.low \in ResampleMeans(data)
                    /\ ci.high \in ResampleMeans(data)
                    /\ \E k \in 1..Len(data) : RLeq(data[k], ci.low)
                    /\ RLeq(ci.low, ci.high)
                    /\ \E k \in 1..Len(data) : RLeq(ci.high, data[k])

(***************************************************************************)
(* Claims about parseJudgeResponse (checked under SpecParse).              *)
(***************************************************************************)
\* the parser accepted the reply
ParseAccepted == call.fn = "parseJudgeResponse" /\ call.done /\ call.result.ok

\* the raw scores of the reply and the scores of the JudgeResult, rubric then overall
RawScoresOf(parsed) ==
    [k \in 1..Len(parsed.rubric_scores) |-> parsed.rubric_scores[k].score]
        \o <<parsed.overall_score>>
ParsedScoresOf(result) ==
    [k \in 1..Len(result.rubricScores) |-> result.rubricScores[k].score]
        \o <<result.overallScore>>

MetricsDone == call.fn = "collectMetrics" /\ call.done

UsageEvents == {k \in 1..Len(call.events) : call.events[k].type = "assistant.usage"}
MessageEvents ==
    {k \in 1..Len(call.events) : call.events[k].type \in {"assistant.message", "user.message"}}

RECURSIVE SumOver(_, _)
SumOver(f, S) ==
    IF S = {} THEN 0
    ELSE LET k == CHOOSE x \in S : TRUE IN f[k] + SumOver(f, S \ {k})

\* C16: if some usage event carries a positive input or output count,
\* tokenEstimate is the sum of inputTokens + outputTokens over the usage
\* events and no message-length estimate is added; otherwise it is the sum
\* of ceil(length / 4) over the user and assistant messages.
C16_AllRealOrAllHeuristic ==
    MetricsDone =>
        LET real == [k \in 1..Len(call.events) |->
                        call.events[k].inputTokens + call.events[k].outputTokens]
            heuristic == [k \in 1..Len(call.events) |->
                            (call.events[k].length + 3) \div 4]
            anyReal == \E k \in UsageEvents :
                            call.events[k].inputTokens > 0 \/ call.events[k].outputTokens > 0
        IN  call.result.tokenEstimate =
                IF anyReal THEN SumOver(real, UsageEvents) ELSE SumOver(heuristic, MessageEvents)

\* a usage event with real counts next to messages: the messages are not counted
C16_Witness ==
    /\ MetricsDone
    /\ \E k \in UsageEvents : call.events[k].inputTokens = 2
    /\ \E k \in MessageEvents : call.events[k].length = 8
    /\ \E k \in MessageEvents : call.events[k].length = 5
    /\ call.result.tokenEstimate = 2

(***************************************************************************)
(* Claims about runAgent (checked under SpecRunner).                       *)
(***************************************************************************)
\* the failures of the agent runtime the run may meet
RuntimeFailures == {"client", "session", "send", "session.error", "timeout"}

RuntimeFailed == call.fn = "runAgent" /\ call.failure \in RuntimeFailures

\* C17: when client acquisition, session creation, send, a session.error
\* event or the scenario timeout fails the run, a runner.error event is
\* appended, runAgent returns a RunMetrics with errorCount >= 1, and the
\* failure goes no further (the run is not aborted).
C17_FailureBecomesErrorEvent ==
    RuntimeFailed =>
        /\ call.at # "crashed"
        /\ call.at = "returned" =>
            /\ \E k \in 1..Len(call.result.events) :
                    call.result.events[k].type = "runner.error"
            /\ call.result.errorCount >= 1

(***************************************************************************)
(* Claims about evaluateAssertions (checked under SpecAssertions).         *)
(***************************************************************************)
AssertionsDone == call.fn = "evaluateAssertions" /\ call.done

IsAssertionResult(r) == DOMAIN r = {"assertion", "passed", "message"}

\* C18: for every assertion list there is exactly one AssertionResult per
\* assertion, in input order; an assertion of unknown type gets passed =
\* false with an 'Unknown assertion type' message instead of a throw, and
\* the other assertions of the list still get their results.
C18_OneResultPerAssertion ==
    AssertionsDone =>
        /\ call.result.ok
        /\ Len(call.result.value) = Len(call.assertions)
        /\ \A k \in 1..Len(call.assertions) :
                LET r == call.result.value[k]
                IN  /\ IsAssertionResult(r)
                    /\ r.assertion = call.assertions[k]
                    /\ call.assertions[k].type \notin HandlerNames =>
                            ~r.passed /\ r.message = "Unknown assertion type"

HasInvalidPattern(a) ==
    a.type \in {"output_matches", "output_not_matches"} /\ a.pattern \in InvalidPatterns

\* C19: a pattern assertion whose pattern is not a valid regular expression
\* does not make evaluateAssertions throw or reject: it is a failed result,
\* and every other assertion of the batch still gets its result.
C19_InvalidPatternFails ==
    (AssertionsDone /\ \E k \in 1..Len(call.assertions) : HasInvalidPattern(call.assertions[k]))
        => /\ call.result.ok
           /\ \A k \in 1..Len(call.assertions) :
                /\ IsAssertionResult(call.result.value[k])
                /\ HasInvalidPattern(call.assertions[k]) => ~call.result.value[k].passed

(***************************************************************************)
(* Claims about the judges' permission callbacks (checked under            *)
(* SpecPermission).                                                        *)
(***************************************************************************)
PermissionDone == call.fn = "onPermissionRequest" /\ call.done

\* path is dir or a location strictly inside it, segment by segment
InsideOrEqual(path, dir) ==
    Len(dir) <= Len(path) /\ SubSeq(path, 1, Len(dir)) = dir

\* the request's path as the judge that received it resolves it
ResolvedRequest ==
    resolve(IF call.judge = "independent" THEN workDir ELSE cwd, ReqPath(call.req))

\* C20: a judge session's permission request is approved only if its kind is
\* read or shell and its path or command is absent or resolves to the work
\* directory, the skill directory or a location strictly inside one of them;
\* a sibling directory whose name starts with the work directory's is denied.
C20_JudgePermissionGating ==
    (PermissionDone /\ call.result = Approved) =>
        /\ call.req.kind \in {"read", "shell"}
        /\ \/ ReqPath(call.req) = None
           \/ InsideOrEqual(ResolvedRequest, workDir)
           \/ InsideOrEqual(ResolvedRequest, skillPath)

(***************************************************************************)
(* Claims about the file assertions of run() (checked under Spec).        *)
(***************************************************************************)

\* the metrics of the run attempts whose assertions were evaluated
EvaluatedMetrics ==
    {chain[r].baselineMetrics : r \in {q \in RunIds : chain[q].stage # "idle"}}
    \cup {chain[r].withSkillMetrics : r \in {q \in RunIds : chain[q].stage # "idle"}}

\* what the scenario's assertions yield in the given directory
ResultsIn(m, dir) == evaluateAssertions(cfg.assertions, m.agentOutput, dir).value

\* C21: the assertions of a run are evaluated in that run's own work
\* directory (the baseline's in baselineMetrics.workDir, the skill run's in
\* withSkillMetrics.workDir), so the results are those of the files the run
\* produced.
C21_AssertionsSeeOwnWorkDir ==
    cfg.assertions # None =>
        \A m \in EvaluatedMetrics :
            m.assertionResults = ResultsIn(m, WorkDirContents(m.workDir))

(***************************************************************************)
(* Claims about the sessions and timers of the judge attempts (checked    *)
(* under SpecRetry).                                                       *)
(***************************************************************************)

\* judgeRun, or one direction of pairwiseJudge, has settled
Settled(t) == task[t].status \in {"returned", "threw"}

\* C22: every session a judge attempt created is destroyed when the attempt
\* ends, however it ends; once judgeRun or pairwiseJudge has settled, no
\* session it created remains undestroyed.
C22_SessionsDestroyed ==
    /\ \A s \in sessions : s.destroyed
    /\ \A t \in TaskIds : Settled(t) => \A s \in sessions : s.task = t => s.destroyed

\* C30: the timeout timer of a judge attempt is cancelled when the attempt
\* ends, on success and on failure; once judgeRun or pairwiseJudge has
\* settled, no timer of its attempts is left armed.
C30_TimersCancelled ==
    /\ \A s \in sessions : ~s.timerArmed
    /\ \A t \in TaskIds : Settled(t) => \A s \in sessions : s.task = t => ~s.timerArmed

(***************************************************************************)
(* Claims about the ordering of run() (checked under Spec).               *)
(***************************************************************************)

\* a judge call (judgeRun or a direction of pairwiseJudge) of attempt r has started
JudgeCallStarted(r) == \E t \in TaskIds : t[1] = r /\ task[t].status # "idle"

\* a judge call of the scenario has not settled yet
JudgeCallOutstanding == \E t \in TaskIds : task[t].status = "running"

\* C23: the two agent runs of an attempt are started together and both have
\* completed before the attempt's assertions and judge calls start, and no
\* comparison of the scenario is computed before all judge calls of all its
\* attempts have settled.
C23_Ordering ==
    /\ pc = "agents" => \A a \in Arms : agent[a].status \in {"running", "done"}
    /\ \A r \in RunIds :
        /\ JudgeCallStarted(r) => chain[r].stage # "idle"
        /\ chain[r].stage # "idle" =>
            chain[r].baselineMetrics # None /\ chain[r].withSkillMetrics # None
    /\ verdicts # <<>> => ~JudgeCallOutstanding

(***************************************************************************)
(* Claims about the metrics runAgent returns (checked under SpecRunner).  *)
(***************************************************************************)

\* runAgent has returned its RunMetrics
RunnerReturned == call.fn = "runAgent" /\ call.at = "returned"

\* C24: the RunMetrics runAgent returned is a snapshot: session events
\* delivered after the return do not change its events, so the events stay
\* consistent with the toolCallCount, turnCount and errorCount computed from
\* them.
C24_EventsMatchCounts ==
    RunnerReturned =>
        LET metrics == call.result
        IN  /\ metrics.toolCallCount = CountType(metrics.events, {"tool.execution_start"})
            /\ metrics.turnCount = CountType(metrics.events, {"assistant.message"})
            /\ metrics.errorCount =
                    CountType(metrics.events, {"session.error", "runner.error"})

(***************************************************************************)
(* Claims about the glob fallback (checked under SpecAssertions).         *)
(***************************************************************************)

\* the assertion's path makes glob raise, and a file of that literal name exists
GlobFailsLiteralExists(a) ==
    a.path \in theWorkDir.globErrors /\ a.path \in theWorkDir.literal

\* C26: when glob expansion raises, file_exists, file_not_exists and
\* file_contains each treat the pattern as a literal path: if that file
\* exists, file_exists passes, file_not_exists fails and file_contains
\* inspects the file's content.
C26_GlobFallback ==
    (AssertionsDone /\ call.result.ok) =>
        \A k \in 1..Len(call.assertions) :
            LET a == call.assertions[k]
                r == call.result.value[k]
            IN  GlobFailsLiteralExists(a) =>
                    /\ a.type = "file_exists" => r.passed
                    /\ a.type = "file_not_exists" => ~r.passed
                    /\ a.type = "file_contains" =>
                            (r.passed <=> <<a.path, a.value>> \in theWorkDir.contents)

(***************************************************************************)
(* Claims about the per-run results of run() (checked under Spec).        *)
(***************************************************************************)

\* the run attempt a stored run result belongs to
AttemptOf(run) == run.metrics.workDir[1]

\* C27: when run() computes the per-run scores, baselineRuns[i],
\* withSkillRuns[i] and perRunPairwise[i] belong to the same run attempt for
\* every index i, in whatever order the judges of the attempts completed.
C27_PerRunPairing ==
    verdicts # <<>> =>
        \A i \in 1..Len(baselineRuns) :
            /\ AttemptOf(baselineRuns[i]) = AttemptOf(withSkillRuns[i])
            /\ perRunPairwise[i] # None => AttemptOf(baselineRuns[i]) = i

\* in some run attempt the baseline completed the task and the skill run did not
AttemptRegressed ==
    \E r \in 1..cfg.runs :
        /\ chain[r].stage # "idle"
        /\ chain[r].baselineMetrics.taskCompleted
        /\ ~chain[r].withSkillMetrics.taskCompleted

\* C28: with requireCompletion, a run attempt in which the baseline completed
\* the task and the skill run of the same attempt did not makes the skill's
\* verdict fail, also when the scenario has several runs.
C28_RegressionPerAttempt ==
    (verdicts # <<>> /\ cfg.requireCompletion /\ AttemptRegressed) =>
        \A k \in 1..Len(verdicts) : ~verdicts[k].passed

(***************************************************************************)
(* runner.ts: getSharedClient and stopSharedClient, called by run() and by   *)
(* the agent runs and judge calls it started.  The state is held in call.  *)
(***************************************************************************)

\* the calls of getSharedClient one agent run or judge call makes (its attempts)
MaxClientCalls == 2

\* the clients constructed in one execution
MaxClients == 3

\* the background callers: agent runs and judge calls
Workers == {"w1", "w2"}
Callers == {"run"} \cup Workers

\* _sharedClient = null is 0; a client is its index in clients
IdleCaller == [at |-> "idle", mine |-> 0, client |-> 0, epoch |-> 0, calls |-> 0]

ClientStart ==
    [fn |-> "sharedClient", shared |-> 0, clients |-> <<>>, sinceStop |-> 0, stops |-> 0,
     run |-> "validate", stopping |-> 0, callers |-> [c \in Callers |-> IdleCaller]]

\* the caller may call getSharedClient now: run() at its model validation, a
\* worker while the process is there
MayCall(c) ==
    IF c = "run" THEN call.run = "validate" /\ call.callers[c].at = "idle"
    ELSE /\ call.run \in {"work", "stopping", "returned"}
         /\ call.callers[c].at \in {"idle", "got"}
         /\ call.callers[c].calls < MaxClientCalls

\* if (_sharedClient) return _sharedClient; else await import(...)
GetSharedClientEnter(c) ==
    /\ call.fn = "sharedClient" /\ MayCall(c)
    /\ call' = [call EXCEPT !.callers[c] =
            IF call.shared # 0
            THEN [@ EXCEPT !.at = "got", !.client = call.shared, !.epoch = call.stops,
                           !.calls = @ + 1]
            ELSE [@ EXCEPT !.at = "import", !.calls = @ + 1]]
    /\ UNCHANGED <<judgeVars, runVars>>

\* after the import: _sharedClient = new CopilotClient(options); start() is called
GetSharedClientConstruct(c) ==
    /\ call.fn = "sharedClient" /\ call.run # "exited"
    /\ call.callers[c].at = "import"
    /\ Len(call.clients) < MaxClients
    /\ LET id == Len(call.clients) + 1
       IN  call' = [call EXCEPT !.clients = Append(@, "constructed"),
                                !.shared = id,
                                !.sinceStop = @ + 1,
                                !.callers[c] = [@ EXCEPT !.at = "starting", !.mine = id]]
    /\ UNCHANGED <<judgeVars, runVars>>

\* start() resolved: return _sharedClient, the variable as it is now
GetSharedClientStarted(c) ==
    /\ call.fn = "sharedClient" /\ call.run # "exited"
    /\ call.callers[c].at = "starting"
    /\ call' = [call EXCEPT
            !.clients[call.callers[c].mine] = IF @ = "constructed" THEN "started" ELSE @,
            !.callers[c] = [@ EXCEPT !.at = "got", !.client = call.shared,
                                     !.epoch = call.stops]]
    /\ UNCHANGED <<judgeVars, runVars>>

\* an agent run or judge call is over
WorkerFinish(c) ==
    /\ call.fn = "sharedClient" /\ call.run # "exited"
    /\ c \in Workers /\ call.callers[c].at = "got"
    /\ call' = [call EXCEPT !.callers[c].at = "finished"]
    /\ UNCHANGED <<judgeVars, runVars>>

\* run(): listModels; an invalid model or a failure returns 1
RunValidateModel ==
    /\ call.fn = "sharedClient" /\ call.run = "validate"
    /\ call.callers["run"].at = "got"
    /\ \E next \in {"work", "returned"} : call' = [call EXCEPT !.run = next]
    /\ UNCHANGED <<judgeVars, runVars>>

\* run() calls stopSharedClient, at the end or on the fatal judge abort while
\* other judge calls are still running: if (_sharedClient) await stop()
StopSharedClientBegin ==
    /\ call.fn = "sharedClient" /\ call.run = "work"
    /\ call' = IF call.shared # 0
               THEN [call EXCEPT !.run = "stopping", !.stopping = call.shared]
               ELSE [call EXCEPT !.run = "returned"]
    /\ UNCHANGED <<judgeVars, runVars>>

\* stop() resolved: _sharedClient = null, and run() returns
StopSharedClientEnd ==
    /\ call.fn = "sharedClient" /\ call.run = "stopping"
    /\ call' = [call EXCEPT !.clients[call.stopping] = "stopped",
                            !.shared = 0, !.stops = @ + 1, !.sinceStop = 0,
                            !.stopping = 0, !.run = "returned"]
    /\ UNCHANGED <<judgeVars, runVars>>

\* the action handler calls process.exit with run()'s exit code
ProcessExit ==
    /\ call.fn = "sharedClient" /\ call.run = "returned"
    /\ call' = [call EXCEPT !.run = "exited"]
    /\ UNCHANGED <<judgeVars, runVars>>

InitClient == call = ClientStart /\ Idle

NextClient ==
    \/ \E c \in Callers : GetSharedClientEnter(c)
    \/ \E c \in Callers : GetSharedClientConstruct(c)
    \/ \E c \in Callers : GetSharedClientStarted(c)
    \/ \E c \in Workers : WorkerFinish(c)
    \/ RunValidateModel
    \/ StopSharedClientBegin
    \/ StopSharedClientEnd
    \/ ProcessExit

SpecClient == InitClient /\ [][NextClient]_vars

(***************************************************************************)
(* Claims about the shared client (checked under SpecClient).             *)
(***************************************************************************)

\* the callers that hold a client they received from getSharedClient
Holders == {c \in Callers : call.callers[c].at \in {"got", "finished"}}

\* C29: at most one client is constructed and started between two stops,
\* all callers of that period receive the same instance, and after run() has
\* returned no started client remains unstopped.
C29_SingletonClient ==
    call.fn = "sharedClient" =>
        /\ call.sinceStop <= 1
        /\ \A c \in Holders, d \in Holders :
            call.callers[c].epoch = call.callers[d].epoch =>
                call.callers[c].client = call.callers[d].client
        /\ call.run = "returned" =>
            \A id \in 1..Len(call.clients) : call.clients[id] # "started"

(***************************************************************************)
(* Claims about pairwiseJudge (checked under SpecPairwise).                *)
(***************************************************************************)
\* the run an evaluator's answer names: in the forward call A is the baseline,
\* in the reverse call A is the skill
StatedWinner(raw, direction) ==
    IF raw = "tie" THEN "tie"
    ELSE IF direction = "forward" THEN (IF raw = "A" THEN "baseline" ELSE "skill")
    ELSE (IF raw = "A" THEN "skill" ELSE "baseline")

ForwardCall(r) == task[<<r, "forward">>]
ReverseCall(r) == task[<<r, "reverse">>]

C2_EveryCriterionForcedToTie ==
    \A r \in RunIds :
        (/\ pairwise[r].status = "resolved"
         /\ ForwardCall(r).result.overallWinner # ReverseCall(r).result.overallWinner) =>
            \A k \in 1..Len(pairwise[r].result.rubricResults) :
                /\ pairwise[r].result.rubricResults[k].winner = "tie"
                /\ pairwise[r].result.rubricResults[k].magnitude = "equal"

(***************************************************************************)
(* Claims about the direction remapping (checked under SpecPairwise).     *)
(***************************************************************************)

\* the answer the evaluator gave in a call that returned
AnswerOf(t) == task[t].reply.content.value

\* C25: a call that returned has remapped the overall winner and every
\* per-criterion winner by its direction (forward A = baseline, B = skill;
\* reverse A = skill, B = baseline; tie = tie). So an evaluator naming the
\* same run in both presentations yields a consistent result for that run,
\* and one answering the same positional label twice yields an inconsistent
\* result collapsed to tie.
C25_DirectionRemap ==
    /\ \A t \in TaskIds :
        (t[2] \in Directions /\ task[t].status = "returned") =>
            /\ task[t].result.overallWinner = StatedWinner(AnswerOf(t).overall_winner, t[2])
            /\ Len(task[t].result.rubricResults) = Len(AnswerOf(t).rubric_results)
            /\ \A k \in 1..Len(task[t].result.rubricResults) :
                task[t].result.rubricResults[k].winner =
                    StatedWinner(AnswerOf(t).rubric_results[k].winner, t[2])
    /\ \A r \in RunIds :
        pairwise[r].status = "resolved" =>
            LET fa == AnswerOf(<<r, "forward">>).overall_winner
                ra == AnswerOf(<<r, "reverse">>).overall_winner
                res == pairwise[r].result
            IN  /\ (fa = "A" /\ ra = "B") =>
                    res.overallWinner = "baseline" /\ res.positionSwapConsistent
                /\ (fa = "B" /\ ra = "A") =>
                    res.overallWinner = "skill" /\ res.positionSwapConsistent
                /\ (fa = ra /\ fa \in {"A", "B"}) =>
                    res.overallWinner = "tie" /\ ~res.positionSwapConsistent

\* the evaluator prefers the skill run in both presentations, overall and on
\* the first criterion
C25_Witness ==
    /\ pairwise[1].status = "resolved"
    /\ AnswerOf(<<1, "forward">>).overall_winner = "B"
    /\ AnswerOf(<<1, "reverse">>).overall_winner = "A"
    /\ Len(AnswerOf(<<1, "forward">>).rubric_results) >= 1
    /\ Len(AnswerOf(<<1, "reverse">>).rubric_results) >= 1
    /\ AnswerOf(<<1, "forward">>).rubric_results[1].winner = "B"
    /\ AnswerOf(<<1, "reverse">>).rubric_results[1].winner = "A"
    /\ task[<<1, "reverse">>].result.rubricResults[1].winner = "skill"
    /\ pairwise[1].result.overallWinner = "skill"
    /\ pairwise[1].result.positionSwapConsistent

(***************************************************************************)
(* Claims about the retry loops (checked under SpecRetry).                 *)
(***************************************************************************)
Parseable(reply) == reply.kind = "content" /\ reply.content.json = "object"

C5_RetryState ==
    \A t \in TaskIds :
        LET own == {x \in sessions : x.task = t}
        IN  /\ task[t].calls <= 3
            /\ Cardinality(own) <= task[t].calls
            /\ \A x \in own : x.attempt < task[t].calls
            /\ \A x, y \in own : x.attempt = y.attempt => x = y
            /\ task[t].status = "threw" =>
                    task[t].calls = 3 /\ ~Parseable(task[t].reply) /\ task[t].result = None
            /\ task[t].status = "returned" =>
                    Parseable(task[t].reply) /\ task[t].result # None
            /\ (task[t].status = "running" /\ task[t].calls > 0) =>
                    task[t].calls < 3 /\ ~Parseable(task[t].reply)

C5_RetryStep ==
    \A t \in TaskIds :
        /\ task[t].status \in {"returned", "threw"} => task'[t] = task[t]
        /\ task'[t].calls \in {task[t].calls, task[t].calls + 1}
        /\ task'[t].calls = task[t].calls + 1 =>
                Cardinality({x \in sessions' : x.task = t})
                    <= Cardinality({x \in sessions : x.task = t}) + 1

\* C5: a judge call makes at most 3 attempts, each with a session of its own;
\* it returns at the first attempt whose reply parses and makes no attempt
\* after that; it throws only after 3 failed attempts; a reply without JSON or
\* with unparseable JSON is a failed attempt and never yields a result.
C5_BoundedRetry == []C5_RetryState /\ [][C5_RetryStep]_vars

\* a reply without JSON, then unparseable JSON, then a reply that parses
C5_Witness ==
    /\ task[<<1, "forward">>].status = "returned"
    /\ task[<<1, "forward">>].calls = 3
    /\ Cardinality({x \in sessions : x.task = <<1, "forward">>}) = 3
    /\ task[<<1, "reverse">>].status = "threw"
    /\ task[<<1, "reverse">>].reply = Content(NoJson)
    /\ pairwise[1].status = "rejected"

(***************************************************************************)
(* Claims about run() (checked under Spec).                                *)
(***************************************************************************)
\* C4: if a judge call of the scenario fails after its retries, an
\* independent judgeRun or a direction of pairwiseJudge, run() returns a
\* nonzero exit code and no verdict is computed.
C4_JudgeFailureAborts ==
    (pc = "done" /\ \E t \in TaskIds : task[t].status = "threw") =>
        exitCode # 0 /\ verdicts = <<>>

====
